---- MODULE Spec2Model ----
(***************************************************************************)
(* Model of the log monitor of mobile_touch_log_parsing.py: main_loop,     *)
(* parse_log, check_trigger_strings and send_notification, together with   *)
(* the environment they run in (the clock, the log file written by the     *)
(* monitored application, the stop event).                                 *)
(*                                                                         *)
(* Time is counted in whole seconds from the start of main_loop.  A log    *)
(* line carries a ghost field id (the order in which it was written), so   *)
(* that properties can speak about "the same entry" in two polls; no       *)
(* modelled code reads it.                                                 *)
(***************************************************************************)
EXTENDS Integers, Sequences, FiniteSets, TLC

\* ---------------------------------------------------------------- bounds
MaxTicks == 3
MaxLines == 3
MaxBackoffTicks == 12
MaxBackoffLines == 2
MaxFileTicks == 1
MaxFileLen == 2
MaxStopTicks == 2
MaxRegistrations == 2
MaxChecks == 2
MaxParseLen == 4
MaxSegments == 5
MaxRaceTicks == 2
MaxRaceChecks == 3
MaxBurstTicks == 3
MaxBurstLines == 3
MaxClearRetries == 3
MaxClearDelay == 2

\* ------------------------------------------------------ program constants
DatetimeMin == -1000000
EpochStart == -500000
CutoffSeconds == 7200
NotificationCooldown == 30
CallbackCooldown == 15
max_delay == 10
base_delay == 1

None == "None"

\* TriggerString, in declaration order (the enum's iteration order).
TriggerString ==
    << "FAILED_GET_REFERENCE_TABLES", "FAILED_GET_DEVICE_INFO", "CORRUPT_SCHEMA",
       "STORES_NOT_CORRECTLY_SET_UP", "DEVICE_ID_MISMATCH", "UNKNOWN" >>

TriggerNames == { TriggerString[i] : i \in 1..Len(TriggerString) }

\* The value of each member: the substring check_trigger_strings looks for.
TriggerValue ==
    [ t \in TriggerNames |->
        CASE t = "FAILED_GET_REFERENCE_TABLES" ->
                 "storeAction() fail: LoadAll:getAllReferenceTables"
          [] t = "FAILED_GET_DEVICE_INFO" ->
                 "storeAction() fail: LoadByKey:getDeviceInfo"
          [] t = "CORRUPT_SCHEMA" -> "init schema: error: Internal error"
          [] t = "STORES_NOT_CORRECTLY_SET_UP" -> "Stores not correctly set up, db"
          [] t = "DEVICE_ID_MISMATCH" ->
                 "Error: Device configuration corrupt - device ID mismatch (3)"
          [] t = "UNKNOWN" -> "UNKNOWN" ]

\* default_callbacks as registered by setup_trigger_callbacks: every trigger
\* but UNKNOWN is bound to a handler.
default_callbacks ==
    [ t \in TriggerNames |-> IF t = "UNKNOWN" THEN None ELSE "handle_" \o t ]

\* The dict of setup_test_callbacks: one lambda for each of the first four
\* members; DEVICE_ID_MISMATCH and UNKNOWN are not in it.
test_callbacks ==
    [ t \in TriggerNames |->
        IF t \in { "UNKNOWN", "DEVICE_ID_MISMATCH" } THEN None ELSE "lambda_" \o t ]

\* A message is modelled by the set of strings of interest (member values
\* and member names) that it contains as substrings: "s in message" is
\* s \in message.  These are the messages the monitored application writes.
Messages ==
    { {}, {TriggerValue["FAILED_GET_REFERENCE_TABLES"]} }

VARIABLES
    now,                     \* the clock (datetime.datetime.now())
    ticks,                   \* ghost: how many times the clock has advanced
    fileExists,              \* log_file.exists()
    lines,                   \* the lines of the log file
    mtime,                   \* the file's st_mtime
    nextId,                  \* ghost: id of the next line written
    stop_event,              \* stop_event.is_set()
    logs_loaded_event,       \* logs_loaded_event.is_set()
    callbacks,               \* trigger |-> its _callback (None when unbound)
    NOTIFICATIONS_AVAILABLE, \* module constant fixed at import
    pc,                      \* where main_loop is
    last_modified,           \* main_loop local
    last_seen_log_entry,     \* main_loop local
    consecutive_failures,    \* main_loop local
    delay,                   \* the delay of the sleep in progress
    wake,                    \* when the sleep in progress ends
    pending,                 \* new_entries still to be checked in this poll
    last_notification_time,  \* global _last_notification_time
    last_callback_time,      \* global _last_callback_time
    invocations,             \* ghost: the callback invocations so far
    requests,                \* ghost: the send_notification calls so far
    dropped,                 \* ghost: ids whose callback the cooldown dropped
    startedAbsent,           \* ghost: main_loop was started without the file
    absentRun,               \* ghost: consecutive polls that found no file
    excFlag,                 \* ghost: 1 when the last poll that found the file raised
    afterLoad,               \* ghost: ids written after the initial load
    stopAt,                  \* ghost: where main_loop was when stop_event was set
    readFault,               \* lines a read yields before it fails (-1: no failure)
    registrations,           \* ghost: the registration calls so far, each the
                             \*   sequence of <<trigger, callback>> it registered
    lastCall,                \* ghost: the last call of a function made directly
    threads,                 \* the position of each concurrent dispatcher in
                             \*   check_trigger_strings
    rawLine,                 \* the text handed to log_entry_from_line, as its
                             \*   space-separated segments
    history,                 \* ghost: what happened to the entries so far (kept
                             \*   only in the specifications that refer to it)
    clear                    \* the call of hard_clear in progress

vars ==
    << now, ticks, fileExists, lines, mtime, nextId, stop_event, logs_loaded_event,
       callbacks, NOTIFICATIONS_AVAILABLE, pc, last_modified, last_seen_log_entry,
       consecutive_failures, delay, wake, pending, last_notification_time,
       last_callback_time, invocations, requests, dropped, startedAbsent,
       absentRun, excFlag, afterLoad, stopAt, readFault, registrations, lastCall,
       threads, rawLine, history, clear >>

envVars ==
    << now, ticks, fileExists, lines, mtime, nextId, stop_event, stopAt, afterLoad >>
directVars == << threads, rawLine, history, clear >>
auxVars == << readFault, registrations, lastCall, directVars >>
auxCore == << readFault, registrations, lastCall, threads, rawLine, clear >>
loopVars ==
    << pc, last_modified, last_seen_log_entry, consecutive_failures, delay, wake,
       pending, logs_loaded_event >>
dispatchVars ==
    << last_notification_time, last_callback_time, invocations, requests, dropped >>
ghostVars == << startedAbsent, absentRun, excFlag >>

Min(a, b) == IF a < b THEN a ELSE b

\* The dispatchers that may run check_trigger_strings side by side, and
\* their state before any of them has started.
Dispatchers == 1 .. 2
NoThreads == [d \in Dispatchers |-> [at |-> "idle", id |-> 0]]

\* history where it is not kept, and where it is: the ids of the entries
\* passed to check_trigger_strings, the ids of the entries of a batch that
\* were left when a callback raised, whether a read found no entries while
\* last_seen_log_entry was None, and the ids of the lines written without
\* the modification time getting newer than last_modified.
NoHistory ==
    [on |-> FALSE, examined |-> {}, abandoned |-> {}, emptyRead |-> FALSE,
     unannounced |-> {}]
EmptyHistory == [NoHistory EXCEPT !.on = TRUE]

\* No call of hard_clear is in progress.
NoClear == [at |-> "idle"]

\* lastCall before any direct call.
NoCall == [op |-> "none", message |-> {}, cbs |-> << >>, result |-> << >>]

\* ------------------------------------------------------------ the parser
\* A line of the file: wellformed says whether it has four space-separated
\* segments and a date and time in the fixed format.
Line(id, wellformed, ts, msg) ==
    [id |-> id, wellformed |-> wellformed, ts |-> ts, msg |-> msg]

LogEntry(line) ==
    [id |-> line.id, timestamp |-> line.ts, message |-> line.msg]

\* log_entry_from_line: the entry, or ok = FALSE for the ValueError.
log_entry_from_line(line) ==
    IF line.wellformed
    THEN [ok |-> TRUE, entry |-> LogEntry(line)]
    ELSE [ok |-> FALSE, entry |-> None]

\* read_log_file: no lines when the file does not exist; when the read
\* fails after fault lines, the exception is caught and the lines read so
\* far are returned (fault = -1: the read does not fail).
read_log_file(exists, ls, fault) ==
    IF ~exists THEN << >>
    ELSE IF fault = -1 \/ fault >= Len(ls) THEN ls
    ELSE SubSeq(ls, 1, fault)

\* Mutant: entries older than the cutoff are kept.
RECURSIVE ScanBack_no_cutoff(_, _, _)
ScanBack_no_cutoff(ls, i, cutoff_date) ==
    IF i = 0 THEN << >>
    ELSE IF ~ls[i].wellformed THEN ScanBack_no_cutoff(ls, i - 1, cutoff_date)
    ELSE << LogEntry(ls[i]) >> \o ScanBack_no_cutoff(ls, i - 1, cutoff_date)

\* Mutant: the entries are returned in file order.
RECURSIVE ScanBack_file_order(_, _, _)
ScanBack_file_order(ls, i, cutoff_date) ==
    IF i = 0 THEN << >>
    ELSE IF ~ls[i].wellformed THEN ScanBack_file_order(ls, i - 1, cutoff_date)
    ELSE IF ls[i].ts < cutoff_date THEN << >>
    ELSE ScanBack_file_order(ls, i - 1, cutoff_date) \o << LogEntry(ls[i]) >>

\* Mutant: an entry older than the cutoff is skipped and the scan goes on.
RECURSIVE ScanBack_skip_old(_, _, _)
ScanBack_skip_old(ls, i, cutoff_date) ==
    IF i = 0 THEN << >>
    ELSE IF ~ls[i].wellformed \/ ls[i].ts < cutoff_date
         THEN ScanBack_skip_old(ls, i - 1, cutoff_date)
    ELSE << LogEntry(ls[i]) >> \o ScanBack_skip_old(ls, i - 1, cutoff_date)

\* The loop of parse_log over reversed(lines), from line i down to line 1.
RECURSIVE ScanBack(_, _, _)
ScanBack(ls, i, cutoff_date) ==
    IF i = 0 THEN << >>
    ELSE LET r == log_entry_from_line(ls[i]) IN
         IF ~r.ok THEN ScanBack(ls, i - 1, cutoff_date)
         ELSE IF r.entry.timestamp < cutoff_date THEN << >>
         ELSE << r.entry >> \o ScanBack(ls, i - 1, cutoff_date)

parse_log(exists, ls, fault, t) ==
    LET read == read_log_file(exists, ls, fault) IN
    ScanBack(read, Len(read), t - CutoffSeconds)

\* Mutant: the epoch stands for a missing file.
check_last_modified_epoch(exists, mt) == IF exists THEN << mt >> ELSE << EpochStart >>

\* check_last_modified: the modification time, or None (the empty sequence
\* here) when the file does not exist.
check_last_modified(exists, mt) == IF exists THEN << mt >> ELSE << >>

\* ------------------------------------------------------- dispatch policy
\* Mutant: the notification window taken from the callback cooldown.
NotificationTooSoon_callback_window(t, lnt) == t - lnt < CallbackCooldown

NotificationTooSoon(t, lnt) == t - lnt < NotificationCooldown

\* send_notification at time t; notifyOK is whether win11toast's notify()
\* returns (TRUE) or raises (FALSE).
send_notification(t, lnt, avail, notifyOK) ==
    IF ~avail THEN [ret |-> FALSE, sent |-> FALSE, lnt |-> lnt]
    ELSE IF NotificationTooSoon(t, lnt)
         THEN [ret |-> FALSE, sent |-> FALSE, lnt |-> lnt]
    ELSE IF notifyOK THEN [ret |-> TRUE, sent |-> TRUE, lnt |-> t]
    ELSE [ret |-> FALSE, sent |-> FALSE, lnt |-> lnt]

\* Mutant: the callback cooldown lasts as long as the notification cooldown.
CallbackTooSoon_notification_window(t, lct) == t - lct < NotificationCooldown

\* Mutant: the callback cooldown is never in force.
CallbackTooSoon_never(t, lct) == FALSE

CallbackTooSoon(t, lct) == t - lct < CallbackCooldown

\* The first trigger, in declaration order, whose value the message
\* contains; 0 when there is none.
\* Mutant: the last matching trigger is taken.
FirstMatchFrom_latest(message, i) ==
    LET M == { k \in i .. Len(TriggerString) : TriggerValue[TriggerString[k]] \in message }
    IN IF M = {} THEN 0 ELSE CHOOSE k \in M : \A j \in M : j <= k

RECURSIVE FirstMatchFrom(_, _)
FirstMatchFrom(message, i) ==
    IF i > Len(TriggerString) THEN 0
    ELSE IF TriggerValue[TriggerString[i]] \in message THEN i
    ELSE FirstMatchFrom(message, i + 1)

FirstMatch(message) == FirstMatchFrom(message, 1)

\* TriggerString.from_message: the first member, in declaration order, whose
\* name the message contains; UNKNOWN when there is none.
RECURSIVE from_message_from(_, _)
from_message_from(message, i) ==
    IF i > Len(TriggerString) THEN "UNKNOWN"
    ELSE IF TriggerString[i] \in message THEN TriggerString[i]
    ELSE from_message_from(message, i + 1)

from_message(message) == from_message_from(message, 1)

\* Mutant: the notification is requested before the callback cooldown is
\* consulted.
check_trigger_strings_notify_first(entry, t, lct, lnt, cbs, avail, notifyOK, cbRaises) ==
    LET i == FirstMatch(entry.message)
        quiet == [ret |-> FALSE, lct |-> lct, lnt |-> lnt, invoked |-> None,
                  dropped |-> FALSE, request |-> << >>, raised |-> FALSE]
        n == send_notification(t, lnt, avail, notifyOK)
        req == << [id |-> entry.id, t |-> t, ret |-> n.ret, sent |-> n.sent] >>
    IN
    IF i = 0 THEN quiet
    ELSE IF cbs[TriggerString[i]] = None THEN [quiet EXCEPT !.ret = TRUE]
    ELSE IF CallbackTooSoon(t, lct)
         THEN [quiet EXCEPT !.dropped = TRUE, !.lnt = n.lnt, !.request = req]
    ELSE [ret |-> TRUE, lct |-> t, lnt |-> n.lnt, invoked |-> TriggerString[i],
          dropped |-> FALSE, request |-> req, raised |-> cbRaises]

\* Mutant: the cooldown holds back the callbacks of the first trigger only.
check_trigger_strings_first_trigger_cooldown(entry, t, lct, lnt, cbs, avail, notifyOK, cbRaises) ==
    LET i == FirstMatch(entry.message)
        quiet == [ret |-> FALSE, lct |-> lct, lnt |-> lnt, invoked |-> None,
                  dropped |-> FALSE, request |-> << >>, raised |-> FALSE]
    IN
    IF i = 0 THEN quiet
    ELSE IF cbs[TriggerString[i]] = None THEN [quiet EXCEPT !.ret = TRUE]
    ELSE IF i = 1 /\ CallbackTooSoon(t, lct) THEN [quiet EXCEPT !.dropped = TRUE]
    ELSE LET n == send_notification(t, lnt, avail, notifyOK) IN
         [ret |-> TRUE, lct |-> t, lnt |-> n.lnt,
          invoked |-> TriggerString[i], dropped |-> FALSE,
          request |-> << [id |-> entry.id, t |-> t, ret |-> n.ret, sent |-> n.sent] >>,
          raised |-> cbRaises]

\* Mutant: a skipped callback still stamps the callback tracker.
check_trigger_strings_stamp_on_skip(entry, t, lct, lnt, cbs, avail, notifyOK, cbRaises) ==
    LET i == FirstMatch(entry.message)
        quiet == [ret |-> FALSE, lct |-> lct, lnt |-> lnt, invoked |-> None,
                  dropped |-> FALSE, request |-> << >>, raised |-> FALSE]
    IN
    IF i = 0 THEN quiet
    ELSE IF cbs[TriggerString[i]] = None THEN [quiet EXCEPT !.ret = TRUE]
    ELSE IF CallbackTooSoon(t, lct) THEN [quiet EXCEPT !.dropped = TRUE, !.lct = t]
    ELSE LET n == send_notification(t, lnt, avail, notifyOK) IN
         [ret |-> TRUE, lct |-> t, lnt |-> n.lnt,
          invoked |-> TriggerString[i], dropped |-> FALSE,
          request |-> << [id |-> entry.id, t |-> t, ret |-> n.ret, sent |-> n.sent] >>,
          raised |-> cbRaises]

\* Mutant: the notification is requested for a trigger without a callback.
check_trigger_strings_notify_unbound(entry, t, lct, lnt, cbs, avail, notifyOK, cbRaises) ==
    LET i == FirstMatch(entry.message)
        quiet == [ret |-> FALSE, lct |-> lct, lnt |-> lnt, invoked |-> None,
                  dropped |-> FALSE, request |-> << >>, raised |-> FALSE]
        n == send_notification(t, lnt, avail, notifyOK)
        req == << [id |-> entry.id, t |-> t, ret |-> n.ret, sent |-> n.sent] >>
    IN
    IF i = 0 THEN quiet
    ELSE IF cbs[TriggerString[i]] = None
         THEN [quiet EXCEPT !.ret = TRUE, !.lnt = n.lnt, !.request = req]
    ELSE IF CallbackTooSoon(t, lct) THEN [quiet EXCEPT !.dropped = TRUE]
    ELSE [ret |-> TRUE, lct |-> t, lnt |-> n.lnt,
          invoked |-> TriggerString[i], dropped |-> FALSE,
          request |-> req, raised |-> cbRaises]

\* check_trigger_strings(entry) at time t.  cbRaises is whether the invoked
\* callback raises.  The result holds the return value, the new values of
\* the two trackers, and what was done: the trigger whose callback was
\* invoked (or None), whether the cooldown dropped the callback, the
\* send_notification call made (at most one), and whether the callback raised.
check_trigger_strings(entry, t, lct, lnt, cbs, avail, notifyOK, cbRaises) ==
    LET i == FirstMatch(entry.message)
        quiet == [ret |-> FALSE, lct |-> lct, lnt |-> lnt, invoked |-> None,
                  dropped |-> FALSE, request |-> << >>, raised |-> FALSE]
    IN
    IF i = 0 THEN quiet
    ELSE IF cbs[TriggerString[i]] = None THEN [quiet EXCEPT !.ret = TRUE]
    ELSE IF CallbackTooSoon(t, lct) THEN [quiet EXCEPT !.dropped = TRUE]
    ELSE LET n == send_notification(t, lnt, avail, notifyOK) IN
         [ret |-> TRUE, lct |-> t, lnt |-> n.lnt,
          invoked |-> TriggerString[i], dropped |-> FALSE,
          request |-> << [id |-> entry.id, t |-> t, ret |-> n.ret, sent |-> n.sent] >>,
          raised |-> cbRaises]

\* Mutant: a trigger that has a callback keeps it.
register_trigger_callback_keep_first(cbs, trigger, callback) ==
    IF cbs[trigger] = None THEN [cbs EXCEPT ![trigger] = callback] ELSE cbs

\* register_trigger_callback: trigger.callback = callback.
register_trigger_callback(cbs, trigger, callback) ==
    [cbs EXCEPT ![trigger] = callback]

\* Mutant: the triggers that are not in the mapping lose their callback.
register_trigger_callbacks_only_mapping(cbs, items) ==
    [ t \in TriggerNames |->
        IF \E i \in DOMAIN items : items[i][1] = t
        THEN items[CHOOSE i \in DOMAIN items :
                      /\ items[i][1] = t
                      /\ \A j \in DOMAIN items : items[j][1] = t => j <= i][2]
        ELSE None ]

\* register_trigger_callbacks: the items of the dict, in order, one
\* register_trigger_callback each.  items is a sequence of <<trigger, callback>>.
RECURSIVE register_trigger_callbacks(_, _)
register_trigger_callbacks(cbs, items) ==
    IF items = << >> THEN cbs
    ELSE register_trigger_callbacks(
             register_trigger_callback(cbs, Head(items)[1], Head(items)[2]),
             Tail(items))

\* The items of the dict default_callbacks, in the order they are written.
RECURSIVE DictItems(_, _)
DictItems(f, i) ==
    IF i > Len(TriggerString) THEN << >>
    ELSE IF f[TriggerString[i]] = None THEN DictItems(f, i + 1)
    ELSE << << TriggerString[i], f[TriggerString[i]] >> >> \o DictItems(f, i + 1)

\* new_entries of main_loop: the entries not older than the last seen one.
\* Mutant: only the entries strictly newer than the last seen one are new.
RECURSIVE NewEntries_strictly_newer(_, _)
NewEntries_strictly_newer(entries, last) ==
    IF entries = << >> THEN << >>
    ELSE IF Head(entries).timestamp > last.timestamp
         THEN << Head(entries) >> \o NewEntries_strictly_newer(Tail(entries), last)
    ELSE NewEntries_strictly_newer(Tail(entries), last)

\* Mutant: every entry of the file counts as new.
NewEntries_unfiltered(entries, last) == entries

RECURSIVE NewEntries(_, _)
NewEntries(entries, last) ==
    IF entries = << >> THEN << >>
    ELSE IF Head(entries).timestamp >= last.timestamp
         THEN << Head(entries) >> \o NewEntries(Tail(entries), last)
    ELSE NewEntries(Tail(entries), last)

\* Mutant: the falloff is not capped.
BackoffDelay_uncapped(failures) == base_delay * failures

\* Mutant: the falloff starts at zero.
BackoffDelay_from_zero(failures) == Min(base_delay * (failures - 1), max_delay)

BackoffDelay(failures) == Min(base_delay * failures, max_delay)

\* ------------------------------------------------------------ main_loop
\* last_seen_log_entry is << >> for None and << entry >> otherwise.
Init ==
    /\ now = 0
    /\ ticks = 0
    /\ fileExists \in BOOLEAN
    /\ lines = << >>
    /\ mtime = 0
    /\ nextId = 1
    /\ stop_event = FALSE
    /\ logs_loaded_event = FALSE
    /\ callbacks = default_callbacks
    /\ NOTIFICATIONS_AVAILABLE \in BOOLEAN
    /\ pc = "start"
    /\ last_modified = EpochStart
    /\ last_seen_log_entry = << >>
    /\ consecutive_failures = 0
    /\ delay = 0
    /\ wake = 0
    /\ pending = << >>
    /\ last_notification_time = DatetimeMin
    /\ last_callback_time = DatetimeMin
    /\ invocations = << >>
    /\ requests = << >>
    /\ dropped = {}
    /\ startedAbsent = FALSE
    /\ absentRun = 0
    /\ excFlag = 0
    /\ afterLoad = {}
    /\ stopAt = None
    /\ readFault = -1
    /\ registrations = << >>
    /\ lastCall = NoCall
    /\ threads = NoThreads
    /\ rawLine = << >>
    /\ history = NoHistory
    /\ clear = NoClear

\* time.sleep(d): the loop resumes no sooner than d seconds from now.
Sleep(d) ==
    /\ pc' = "sleep"
    /\ delay' = d
    /\ wake' = now + d

\* The validation before the loop: return when the file does not exist.
ValidateLogFile ==
    /\ pc = "start"
    /\ pc' = IF fileExists THEN "loop" ELSE "done"
    /\ startedAbsent' = ~fileExists
    /\ UNCHANGED << envVars, dispatchVars, callbacks, NOTIFICATIONS_AVAILABLE, auxVars,
                    last_modified, last_seen_log_entry, consecutive_failures,
                    delay, wake, pending, logs_loaded_event, absentRun, excFlag >>

\* Mutant: the while condition does not look at stop_event.
LoopExit_disabled == FALSE /\ UNCHANGED vars

\* The while condition finds stop_event set: main_loop returns.
LoopExit ==
    /\ pc = "loop"
    /\ stop_event
    /\ pc' = "done"
    /\ UNCHANGED << envVars, dispatchVars, ghostVars, callbacks,
                    NOTIFICATIONS_AVAILABLE, auxVars, last_modified, last_seen_log_entry,
                    consecutive_failures, delay, wake, pending, logs_loaded_event >>

\* check_last_modified returned None: linear falloff.
PollAbsent ==
    /\ pc = "loop"
    /\ ~stop_event
    /\ check_last_modified(fileExists, mtime) = << >>
    /\ consecutive_failures' = consecutive_failures + 1
    /\ Sleep(BackoffDelay(consecutive_failures'))
    /\ absentRun' = absentRun + 1
    /\ UNCHANGED << envVars, dispatchVars, callbacks, NOTIFICATIONS_AVAILABLE, auxVars,
                    last_modified, last_seen_log_entry, pending, logs_loaded_event,
                    startedAbsent, excFlag >>

\* Mutant: a poll that finds the file unchanged counts as a failure and
\* sleeps the falloff delay.
PollUnchanged_backoff ==
    /\ pc = "loop"
    /\ ~stop_event
    /\ check_last_modified(fileExists, mtime) # << >>
    /\ ~(check_last_modified(fileExists, mtime)[1] > last_modified)
    /\ consecutive_failures' = consecutive_failures + 1
    /\ Sleep(BackoffDelay(consecutive_failures'))
    /\ absentRun' = 0
    /\ excFlag' = 0
    /\ UNCHANGED << envVars, dispatchVars, callbacks, NOTIFICATIONS_AVAILABLE, auxVars,
                    last_modified, last_seen_log_entry, pending, logs_loaded_event,
                    startedAbsent >>

\* Mutant: a poll that finds the file not newer reads it again.
PollUnchanged_reload ==
    /\ pc = "loop"
    /\ ~stop_event
    /\ check_last_modified(fileExists, mtime) # << >>
    /\ ~(check_last_modified(fileExists, mtime)[1] > last_modified)
    /\ consecutive_failures' = 0
    /\ pc' = "load"
    /\ absentRun' = 0
    /\ excFlag' = 0
    /\ UNCHANGED << envVars, dispatchVars, callbacks, NOTIFICATIONS_AVAILABLE, auxVars,
                    last_modified, last_seen_log_entry, delay, wake, pending,
                    logs_loaded_event, startedAbsent >>

\* The file exists and is not newer than last_modified: sleep base_delay.
PollUnchanged ==
    /\ pc = "loop"
    /\ ~stop_event
    /\ check_last_modified(fileExists, mtime) # << >>
    /\ ~(check_last_modified(fileExists, mtime)[1] > last_modified)
    /\ consecutive_failures' = 0
    /\ Sleep(base_delay)
    /\ absentRun' = 0
    /\ excFlag' = 0
    /\ UNCHANGED << envVars, dispatchVars, callbacks, NOTIFICATIONS_AVAILABLE, auxVars,
                    last_modified, last_seen_log_entry, pending, logs_loaded_event,
                    startedAbsent >>

\* Mutant: the event is set as soon as a changed file is seen, before any
\* entry was obtained.
PollChanged_signals ==
    /\ pc = "loop"
    /\ ~stop_event
    /\ check_last_modified(fileExists, mtime) # << >>
    /\ check_last_modified(fileExists, mtime)[1] > last_modified
    /\ consecutive_failures' = 0
    /\ last_modified' = check_last_modified(fileExists, mtime)[1]
    /\ logs_loaded_event' = TRUE
    /\ pc' = "load"
    /\ absentRun' = 0
    /\ excFlag' = 0
    /\ UNCHANGED << envVars, dispatchVars, callbacks, NOTIFICATIONS_AVAILABLE, auxVars,
                    last_seen_log_entry, delay, wake, pending, startedAbsent >>

\* The file exists and is newer than last_modified: go on to parse_log.
PollChanged ==
    /\ pc = "loop"
    /\ ~stop_event
    /\ check_last_modified(fileExists, mtime) # << >>
    /\ check_last_modified(fileExists, mtime)[1] > last_modified
    /\ consecutive_failures' = 0
    /\ last_modified' = check_last_modified(fileExists, mtime)[1]
    /\ pc' = "load"
    /\ absentRun' = 0
    /\ excFlag' = 0
    /\ UNCHANGED << envVars, dispatchVars, callbacks, NOTIFICATIONS_AVAILABLE, auxVars,
                    last_seen_log_entry, delay, wake, pending, logs_loaded_event,
                    startedAbsent >>

\* Mutant: the entries of the initial load are checked like new ones.
LoadOutcome_dispatch_initial(entries, last_seen) ==
    IF entries = << >>
    THEN [kind |-> "empty", last_seen |-> last_seen, pending |-> << >>]
    ELSE IF last_seen = << >>
    THEN [kind |-> "initial", last_seen |-> << entries[1] >>, pending |-> entries]
    ELSE LET new_entries == NewEntries(entries, last_seen[1]) IN
         IF new_entries # << >>
         THEN [kind |-> "new", last_seen |-> << new_entries[1] >>,
               pending |-> new_entries]
         ELSE [kind |-> "none", last_seen |-> last_seen, pending |-> << >>]

\* What main_loop does with the result of parse_log: the new value of
\* last_seen_log_entry, the entries it will pass to check_trigger_strings
\* (in that order), and whether logs_loaded_event is set.
LoadOutcome(entries, last_seen) ==
    IF entries = << >>
    THEN [kind |-> "empty", last_seen |-> last_seen, pending |-> << >>]
    ELSE IF last_seen = << >>
    THEN [kind |-> "initial", last_seen |-> << entries[1] >>, pending |-> << >>]
    ELSE LET new_entries == NewEntries(entries, last_seen[1]) IN
         IF new_entries # << >>
         THEN [kind |-> "new", last_seen |-> << new_entries[1] >>,
               pending |-> new_entries]
         ELSE [kind |-> "none", last_seen |-> last_seen, pending |-> << >>]

\* parse_log returned no entries: continue, without sleeping.
LoadEmpty ==
    /\ pc = "load"
    /\ LoadOutcome(parse_log(fileExists, lines, readFault, now), last_seen_log_entry).kind = "empty"
    /\ pc' = "loop"
    /\ history' = IF history.on /\ last_seen_log_entry = << >>
                  THEN [history EXCEPT !.emptyRead = TRUE]
                  ELSE history
    /\ UNCHANGED << envVars, dispatchVars, ghostVars, callbacks,
                    NOTIFICATIONS_AVAILABLE, auxCore, last_modified, last_seen_log_entry,
                    consecutive_failures, delay, wake, pending, logs_loaded_event >>

\* The first load that yields entries.
LoadInitial ==
    LET o == LoadOutcome(parse_log(fileExists, lines, readFault, now), last_seen_log_entry) IN
    /\ pc = "load"
    /\ o.kind = "initial"
    /\ last_seen_log_entry' = o.last_seen
    /\ logs_loaded_event' = TRUE
    /\ IF o.pending = << >>
       THEN Sleep(base_delay) /\ pending' = << >>
       ELSE pc' = "dispatch" /\ pending' = o.pending /\ UNCHANGED << delay, wake >>
    /\ UNCHANGED << envVars, dispatchVars, ghostVars, callbacks,
                    NOTIFICATIONS_AVAILABLE, auxVars, last_modified, consecutive_failures >>

\* A later load: the entries not older than last_seen_log_entry are new.
LoadNew ==
    LET o == LoadOutcome(parse_log(fileExists, lines, readFault, now), last_seen_log_entry) IN
    /\ pc = "load"
    /\ o.kind \in {"new", "none"}
    /\ last_seen_log_entry' = o.last_seen
    /\ IF o.pending = << >>
       THEN Sleep(base_delay) /\ pending' = << >>
       ELSE pc' = "dispatch" /\ pending' = o.pending /\ UNCHANGED << delay, wake >>
    /\ UNCHANGED << envVars, dispatchVars, ghostVars, callbacks,
                    NOTIFICATIONS_AVAILABLE, auxVars, last_modified, consecutive_failures,
                    logs_loaded_event >>

\* Mutant: the exception leaves main_loop.
ExceptClause_propagate(failures) ==
    [pc |-> "done", failures |-> failures, delay |-> 0]

\* The except clause of main_loop: count the failure and sleep the falloff
\* delay; the loop goes on.
ExceptClause(failures) ==
    [pc |-> "sleep", failures |-> failures + 1, delay |-> BackoffDelay(failures + 1)]

\* One turn of "for entry in new_entries: check_trigger_strings(entry, ...)".
\* An exception of the callback leaves the for loop and reaches the except
\* clause of main_loop; otherwise the sleep of the else clause follows the
\* last entry.
Dispatch ==
    /\ pc = "dispatch"
    /\ pending # << >>
    /\ \E notifyOK \in BOOLEAN, cbRaises \in BOOLEAN :
         LET entry == Head(pending)
             r == check_trigger_strings(entry, now, last_callback_time,
                      last_notification_time, callbacks, NOTIFICATIONS_AVAILABLE,
                      notifyOK, cbRaises)
         IN
         /\ last_callback_time' = r.lct
         /\ last_notification_time' = r.lnt
         /\ invocations' =
              IF r.invoked = None THEN invocations
              ELSE Append(invocations, [id |-> entry.id, t |-> now,
                                        trigger |-> r.invoked, raised |-> r.raised])
         /\ requests' = requests \o r.request
         /\ dropped' = IF r.dropped THEN dropped \cup {entry.id} ELSE dropped
         /\ history' =
              IF ~history.on THEN history
              ELSE [history EXCEPT
                      !.examined = @ \cup {entry.id},
                      !.abandoned =
                          IF r.raised
                          THEN @ \cup { pending[k].id : k \in 2 .. Len(pending) }
                          ELSE @]
         /\ IF r.raised
            THEN /\ consecutive_failures' = ExceptClause(consecutive_failures).failures
                 /\ pc' = ExceptClause(consecutive_failures).pc
                 /\ delay' = ExceptClause(consecutive_failures).delay
                 /\ wake' = now + delay'
                 /\ pending' = << >>
                 /\ excFlag' = 1
            ELSE /\ UNCHANGED << consecutive_failures, excFlag >>
                 /\ pending' = Tail(pending)
                 /\ IF Tail(pending) = << >>
                    THEN Sleep(base_delay)
                    ELSE UNCHANGED << pc, delay, wake >>
    /\ UNCHANGED << envVars, callbacks, NOTIFICATIONS_AVAILABLE, auxCore, last_modified,
                    last_seen_log_entry, logs_loaded_event, startedAbsent, absentRun >>

\* The sleep is over.
Wake ==
    /\ pc = "sleep"
    /\ now >= wake
    /\ pc' = "loop"
    /\ delay' = 0
    /\ wake' = 0
    /\ UNCHANGED << envVars, dispatchVars, ghostVars, callbacks,
                    NOTIFICATIONS_AVAILABLE, auxVars, last_modified, last_seen_log_entry,
                    consecutive_failures, pending, logs_loaded_event >>

\* ------------------------------------------------------- the environment
notEnvCore ==
    << logs_loaded_event, callbacks, NOTIFICATIONS_AVAILABLE, auxCore, pc, last_modified,
       last_seen_log_entry, consecutive_failures, delay, wake, pending,
       last_notification_time, last_callback_time, invocations, requests, dropped,
       startedAbsent, absentRun, excFlag >>
notEnv == << notEnvCore, history >>

\* main_loop observes the file when it polls (check_last_modified) and when
\* it loads (parse_log), and stop_event at the head of the loop; its steps
\* other than the sleep take no time.  A change of the file at any moment
\* since the previous poll is observed like a change right before the poll,
\* so that is when the application writes; the file may also vanish or come
\* back between a poll and its load.
FileTurn ==
    /\ ~stop_event
    /\ pc \in {"loop", "load"}

\* Time passes while main_loop sleeps: by a second, or by the callback
\* cooldown (a sleep may last longer than asked for).
TickSteps == { 1, CallbackCooldown }

Written(id) == IF logs_loaded_event THEN afterLoad \cup {id} ELSE afterLoad

Tick ==
    /\ pc = "sleep"
    /\ ticks < MaxTicks
    /\ \E d \in TickSteps : now' = now + d
    /\ ticks' = ticks + 1
    /\ UNCHANGED << fileExists, lines, mtime, nextId, stop_event, stopAt, afterLoad, notEnv >>

\* The lines the application may write at time t: well-formed, stamped t,
\* with any of its messages.
AppendChoices(id, t) == { Line(id, TRUE, t, m) : m \in Messages }

AppendLine ==
    /\ FileTurn
    /\ pc # "load"
    /\ fileExists
    /\ nextId <= MaxLines
    /\ \E l \in AppendChoices(nextId, now) : lines' = Append(lines, l)
    /\ mtime' = now
    /\ nextId' = nextId + 1
    /\ afterLoad' = Written(nextId)
    /\ UNCHANGED << now, ticks, fileExists, stop_event, stopAt, notEnv >>

DeleteFile ==
    /\ FileTurn
    /\ fileExists
    /\ fileExists' = FALSE
    /\ lines' = << >>
    /\ UNCHANGED << now, ticks, mtime, nextId, stop_event, stopAt, afterLoad, notEnv >>

CreateFile ==
    /\ FileTurn
    /\ ~fileExists
    /\ fileExists' = TRUE
    /\ lines' = << >>
    /\ mtime' = now
    /\ UNCHANGED << now, ticks, nextId, stop_event, stopAt, afterLoad, notEnv >>

SetStop ==
    /\ pc = "loop"
    /\ ~stop_event
    /\ stop_event' = TRUE
    /\ stopAt' = pc
    /\ UNCHANGED << now, ticks, fileExists, lines, mtime, nextId, afterLoad, notEnv >>

\* The environment of the long absences: every tick outlasts the longest
\* sleep, and the application writes trigger lines only.
TickBackoff ==
    /\ pc = "sleep"
    /\ ticks < MaxBackoffTicks
    /\ now' = now + max_delay
    /\ ticks' = ticks + 1
    /\ UNCHANGED << fileExists, lines, mtime, nextId, stop_event, stopAt, afterLoad, notEnv >>

AppendTrigger ==
    /\ FileTurn
    /\ pc # "load"
    /\ fileExists
    /\ nextId <= MaxBackoffLines
    /\ lines' = Append(lines, Line(nextId, TRUE, now,
                                 {TriggerValue["FAILED_GET_REFERENCE_TABLES"]}))
    /\ mtime' = now
    /\ nextId' = nextId + 1
    /\ afterLoad' = Written(nextId)
    /\ UNCHANGED << now, ticks, fileExists, stop_event, stopAt, notEnv >>

Next ==
    \/ ValidateLogFile
    \/ LoopExit
    \/ PollAbsent
    \/ PollUnchanged
    \/ PollChanged
    \/ LoadEmpty
    \/ LoadInitial
    \/ LoadNew
    \/ Dispatch
    \/ Wake
    \/ Tick
    \/ AppendLine
    \/ DeleteFile
    \/ CreateFile
    \/ SetStop

Spec == Init /\ [][Next]_vars

NextBackoff ==
    \/ ValidateLogFile
    \/ LoopExit
    \/ PollAbsent
    \/ PollUnchanged
    \/ PollChanged
    \/ LoadEmpty
    \/ LoadInitial
    \/ LoadNew
    \/ Dispatch
    \/ Wake
    \/ TickBackoff
    \/ AppendTrigger
    \/ DeleteFile
    \/ CreateFile
    \/ SetStop

SpecBackoff == Init /\ [][NextBackoff]_vars

\* The environment of arbitrary files: lines of any kind are written in any
\* order (malformed, older than the cutoff, out of order), the file is
\* emptied (log rotation), the modification time is any time up to now (a
\* restored copy, a clock set back), and a read may fail part-way.
FileStamps == 0 .. 2

FileLines ==
    { Line(1, FALSE, 0, {}),
      Line(2, TRUE, 0 - CutoffSeconds - 1, {TriggerValue["FAILED_GET_REFERENCE_TABLES"]}),
      Line(3, TRUE, 0, {}) }
    \cup { Line(4 + ts, TRUE, ts, {TriggerValue["FAILED_GET_DEVICE_INFO"]}) :
              ts \in FileStamps }

TickFiles ==
    /\ pc = "sleep"
    /\ ticks < MaxFileTicks
    /\ now' = now + 1
    /\ ticks' = ticks + 1
    /\ UNCHANGED << fileExists, lines, mtime, nextId, stop_event, stopAt, afterLoad, notEnv >>

WriteAnyLine ==
    /\ pc = "loop"
    /\ ~stop_event
    /\ fileExists
    /\ Len(lines) < MaxFileLen
    /\ \E l \in FileLines : lines' = Append(lines, l)
    /\ mtime' \in 0 .. now
    /\ UNCHANGED << now, ticks, fileExists, nextId, stop_event, stopAt, afterLoad, notEnv >>

RotateFile ==
    /\ pc = "loop"
    /\ ~stop_event
    /\ fileExists
    /\ lines # << >>
    /\ lines' = << >>
    /\ mtime' \in 0 .. now
    /\ UNCHANGED << now, ticks, fileExists, nextId, stop_event, stopAt, afterLoad, notEnv >>

\* The read of the load in progress will fail after k lines.
FailRead ==
    /\ pc = "load"
    /\ fileExists
    /\ readFault = -1
    /\ \E k \in 0 .. Len(lines) - 1 : readFault' = k
    /\ UNCHANGED << envVars, dispatchVars, ghostVars, loopVars, callbacks,
                    NOTIFICATIONS_AVAILABLE, registrations, lastCall, directVars >>

\* The failure was transient: later reads succeed.
ClearReadFault ==
    /\ pc # "load"
    /\ readFault # -1
    /\ readFault' = -1
    /\ UNCHANGED << envVars, dispatchVars, ghostVars, loopVars, callbacks,
                    NOTIFICATIONS_AVAILABLE, registrations, lastCall, directVars >>

NextFiles ==
    \/ ValidateLogFile
    \/ LoopExit
    \/ PollAbsent
    \/ PollUnchanged
    \/ PollChanged
    \/ LoadEmpty
    \/ LoadInitial
    \/ LoadNew
    \/ Dispatch
    \/ Wake
    \/ TickFiles
    \/ WriteAnyLine
    \/ RotateFile
    \/ DeleteFile
    \/ CreateFile
    \/ FailRead
    \/ ClearReadFault
    \/ SetStop

SpecFiles == Init /\ [][NextFiles]_vars

\* The environment of cancellation: stop_event may be set from another
\* thread at any moment before main_loop has returned.  Until then the clock
\* advances a bounded number of times; once it is set the clock runs on to
\* the end of the sleep in progress.
StopTickSteps == { 1, max_delay }

TickStop ==
    /\ pc = "sleep"
    /\ IF stop_event THEN now < wake ELSE ticks < MaxStopTicks
    /\ \E d \in StopTickSteps : now' = now + d
    /\ ticks' = IF stop_event THEN ticks ELSE ticks + 1
    /\ UNCHANGED << fileExists, lines, mtime, nextId, stop_event, stopAt, afterLoad, notEnv >>

SetStopAnytime ==
    /\ pc # "done"
    /\ ~stop_event
    /\ stop_event' = TRUE
    /\ stopAt' = pc
    /\ UNCHANGED << now, ticks, fileExists, lines, mtime, nextId, afterLoad, notEnv >>

\* The steps of the thread that runs main_loop.
MainLoopStep ==
    \/ ValidateLogFile
    \/ LoopExit
    \/ PollAbsent
    \/ PollUnchanged
    \/ PollChanged
    \/ LoadEmpty
    \/ LoadInitial
    \/ LoadNew
    \/ Dispatch
    \/ Wake

NextStop ==
    \/ MainLoopStep
    \/ TickStop
    \/ AppendTrigger
    \/ DeleteFile
    \/ CreateFile
    \/ SetStopAnytime

\* The thread of main_loop keeps running and time keeps passing.
SpecStop ==
    /\ Init
    /\ [][NextStop]_vars
    /\ WF_vars(MainLoopStep)
    /\ WF_vars(TickStop)

\* The registry and the two functions on a message, called directly (as a
\* test or another module would): registrations in any order, from_message
\* and check_trigger_strings on a message drawn at the start (the message
\* field of lastCall).  No callback is bound before the first registration.
UnboundCallbacks == [ t \in TriggerNames |-> None ]

\* The callables a caller registers, and the triggers it registers them for
\* one by one (the error types of the tests): a member that is not the
\* first, the last member default_callbacks binds, and UNKNOWN.
Callables == { "temp_callback", "other_callback" }

ErrorTypes == { "FAILED_GET_DEVICE_INFO", "DEVICE_ID_MISMATCH", "UNKNOWN" }

\* The strings of interest a message may contain: member values and names.
Substrings == { TriggerValue[t] : t \in TriggerNames } \cup TriggerNames

CallMessages == { m \in SUBSET Substrings : Cardinality(m) <= 2 }

InitRegistry ==
    /\ now = 0
    /\ ticks = 0
    /\ fileExists = TRUE
    /\ lines = << >>
    /\ mtime = 0
    /\ nextId = 1
    /\ stop_event = FALSE
    /\ logs_loaded_event = FALSE
    /\ callbacks = UnboundCallbacks
    /\ NOTIFICATIONS_AVAILABLE = TRUE
    /\ pc = "start"
    /\ last_modified = EpochStart
    /\ last_seen_log_entry = << >>
    /\ consecutive_failures = 0
    /\ delay = 0
    /\ wake = 0
    /\ pending = << >>
    /\ last_notification_time = DatetimeMin
    /\ last_callback_time = DatetimeMin
    /\ invocations = << >>
    /\ requests = << >>
    /\ dropped = {}
    /\ startedAbsent = FALSE
    /\ absentRun = 0
    /\ excFlag = 0
    /\ afterLoad = {}
    /\ stopAt = None
    /\ readFault = -1
    /\ registrations = << >>
    /\ \E m \in CallMessages : lastCall = [NoCall EXCEPT !.message = m]
    /\ threads = NoThreads
    /\ rawLine = << >>
    /\ history = NoHistory
    /\ clear = NoClear

Register ==
    /\ Len(registrations) < MaxRegistrations
    /\ \E t \in ErrorTypes, cb \in Callables :
         /\ callbacks' = register_trigger_callback(callbacks, t, cb)
         /\ registrations' = Append(registrations, << << t, cb >> >>)
    /\ UNCHANGED << envVars, dispatchVars, ghostVars, loopVars,
                    NOTIFICATIONS_AVAILABLE, readFault, lastCall, directVars >>

\* setup_trigger_callbacks().
SetupTriggerCallbacks ==
    /\ Len(registrations) < MaxRegistrations
    /\ callbacks' = register_trigger_callbacks(callbacks, DictItems(default_callbacks, 1))
    /\ registrations' = Append(registrations, DictItems(default_callbacks, 1))
    /\ UNCHANGED << envVars, dispatchVars, ghostVars, loopVars,
                    NOTIFICATIONS_AVAILABLE, readFault, lastCall, directVars >>

\* setup_test_callbacks().
SetupTestCallbacks ==
    /\ Len(registrations) < MaxRegistrations
    /\ callbacks' = register_trigger_callbacks(callbacks, DictItems(test_callbacks, 1))
    /\ registrations' = Append(registrations, DictItems(test_callbacks, 1))
    /\ UNCHANGED << envVars, dispatchVars, ghostVars, loopVars,
                    NOTIFICATIONS_AVAILABLE, readFault, lastCall, directVars >>

\* TriggerString.from_message(message).
FromMessage ==
    /\ lastCall.op # "from_message"
    /\ lastCall' = [op |-> "from_message", message |-> lastCall.message,
                    cbs |-> << >>, result |-> << from_message(lastCall.message) >>]
    /\ UNCHANGED << envVars, dispatchVars, ghostVars, loopVars, callbacks,
                    NOTIFICATIONS_AVAILABLE, readFault, registrations, directVars >>

\* check_trigger_strings(entry) for an entry with the message.
CheckTriggerStrings ==
    /\ nextId <= MaxChecks
    /\ \E notifyOK \in BOOLEAN, cbRaises \in BOOLEAN :
         LET m == lastCall.message
             entry == [id |-> nextId, timestamp |-> now, message |-> m]
             r == check_trigger_strings(entry, now, last_callback_time,
                      last_notification_time, callbacks, NOTIFICATIONS_AVAILABLE,
                      notifyOK, cbRaises)
         IN
         /\ last_callback_time' = r.lct
         /\ last_notification_time' = r.lnt
         /\ invocations' =
              IF r.invoked = None THEN invocations
              ELSE Append(invocations, [id |-> entry.id, t |-> now,
                                        trigger |-> r.invoked, raised |-> r.raised])
         /\ requests' = requests \o r.request
         /\ dropped' = IF r.dropped THEN dropped \cup {entry.id} ELSE dropped
         /\ lastCall' = [op |-> "check_trigger_strings", message |-> m,
                         cbs |-> << callbacks >>, result |-> << r >>]
    /\ nextId' = nextId + 1
    /\ UNCHANGED << now, ticks, fileExists, lines, mtime, stop_event, stopAt, afterLoad,
                    ghostVars, loopVars, callbacks, NOTIFICATIONS_AVAILABLE,
                    readFault, registrations, directVars >>

NextRegistry ==
    \/ Register
    \/ SetupTriggerCallbacks
    \/ SetupTestCallbacks
    \/ FromMessage
    \/ CheckTriggerStrings

SpecRegistry == InitRegistry /\ [][NextRegistry]_vars

\* parse_log and check_last_modified called directly on a file drawn at the
\* start: any lines (malformed, older than the cutoff, on the cutoff, inside
\* the window, in any order), a read that fails or not, or no file at all.
ParseStamps == { 0 - CutoffSeconds - 1, 0 - CutoffSeconds, 0 - 1, 0 }

ParseLines ==
    { Line(1, FALSE, 0, {}) }
    \cup { Line(CutoffSeconds + 3 + ts, TRUE, ts, {}) : ts \in ParseStamps }

ParseFiles == UNION { [1 .. n -> ParseLines] : n \in 0 .. MaxParseLen }

InitParse ==
    /\ now = 0
    /\ ticks = 0
    /\ fileExists \in BOOLEAN
    /\ lines \in ParseFiles
    /\ fileExists \/ lines = << >>
    /\ mtime = 0
    /\ nextId = 1
    /\ stop_event = FALSE
    /\ logs_loaded_event = FALSE
    /\ callbacks = default_callbacks
    /\ NOTIFICATIONS_AVAILABLE = TRUE
    /\ pc = "start"
    /\ last_modified = EpochStart
    /\ last_seen_log_entry = << >>
    /\ consecutive_failures = 0
    /\ delay = 0
    /\ wake = 0
    /\ pending = << >>
    /\ last_notification_time = DatetimeMin
    /\ last_callback_time = DatetimeMin
    /\ invocations = << >>
    /\ requests = << >>
    /\ dropped = {}
    /\ startedAbsent = FALSE
    /\ absentRun = 0
    /\ excFlag = 0
    /\ afterLoad = {}
    /\ stopAt = None
    /\ readFault \in { -1, 1 }
    /\ registrations = << >>
    /\ lastCall = NoCall
    /\ threads = NoThreads
    /\ rawLine = << >>
    /\ history = NoHistory
    /\ clear = NoClear

\* parse_log(log_path).
ParseLog ==
    /\ lastCall.op # "parse_log"
    /\ lastCall' = [op |-> "parse_log", message |-> {}, cbs |-> << >>,
                    result |-> << parse_log(fileExists, lines, readFault, now) >>]
    /\ UNCHANGED << envVars, dispatchVars, ghostVars, loopVars, callbacks,
                    NOTIFICATIONS_AVAILABLE, readFault, registrations, directVars >>

\* check_last_modified(log_file).
CheckLastModified ==
    /\ lastCall.op # "check_last_modified"
    /\ lastCall' = [op |-> "check_last_modified", message |-> {}, cbs |-> << >>,
                    result |-> << check_last_modified(fileExists, mtime) >>]
    /\ UNCHANGED << envVars, dispatchVars, ghostVars, loopVars, callbacks,
                    NOTIFICATIONS_AVAILABLE, readFault, registrations, directVars >>

NextParse ==
    \/ ParseLog
    \/ CheckLastModified

SpecParse == InitParse /\ [][NextParse]_vars

\* ------------------------------------------------ bursts of new lines
\* The application writes while main_loop sleeps: at a poll the file may
\* hold several new lines with different timestamps, in chronological
\* order.  main_loop is started on an empty file or on a file of one line,
\* the file stays, and the lines written hold one of two triggers.
BurstMessages ==
    { {TriggerValue["FAILED_GET_REFERENCE_TABLES"]},
      {TriggerValue["FAILED_GET_DEVICE_INFO"]},
      {TriggerValue["FAILED_GET_DEVICE_INFO"], TriggerValue["CORRUPT_SCHEMA"]} }

InitBurst ==
    /\ now = 0
    /\ ticks = 0
    /\ fileExists = TRUE
    /\ lines \in { << >>, << Line(1, TRUE, 0, {}) >> }
    /\ mtime = 0
    /\ nextId = 2
    /\ stop_event = FALSE
    /\ logs_loaded_event = FALSE
    /\ callbacks = default_callbacks
    /\ NOTIFICATIONS_AVAILABLE = TRUE
    /\ pc = "start"
    /\ last_modified = EpochStart
    /\ last_seen_log_entry = << >>
    /\ consecutive_failures = 0
    /\ delay = 0
    /\ wake = 0
    /\ pending = << >>
    /\ last_notification_time = DatetimeMin
    /\ last_callback_time = DatetimeMin
    /\ invocations = << >>
    /\ requests = << >>
    /\ dropped = {}
    /\ startedAbsent = FALSE
    /\ absentRun = 0
    /\ excFlag = 0
    /\ afterLoad = {}
    /\ stopAt = None
    /\ readFault = -1
    /\ registrations = << >>
    /\ lastCall = NoCall
    /\ threads = NoThreads
    /\ rawLine = << >>
    /\ history = EmptyHistory
    /\ clear = NoClear

TickBurst ==
    /\ pc = "sleep"
    /\ ticks < MaxBurstTicks
    /\ now' = now + 1
    /\ ticks' = ticks + 1
    /\ UNCHANGED << fileExists, lines, mtime, nextId, stop_event, stopAt, afterLoad, notEnv >>

\* A line written since the previous poll, in the current or in the
\* previous second: that second is its timestamp and the file's new
\* modification time.  Neither goes back.
AppendStamped ==
    /\ FileTurn
    /\ pc # "load"
    /\ nextId <= MaxBurstLines + 1
    /\ \E ts \in { now - 1, now }, m \in BurstMessages :
         /\ ts >= 0
         /\ ts >= mtime
         /\ lines # << >> => ts >= lines[Len(lines)].ts
         /\ lines' = Append(lines, Line(nextId, TRUE, ts, m))
         /\ mtime' = ts
         /\ history' = [history EXCEPT
                          !.unannounced = IF ts > last_modified THEN {}
                                          ELSE @ \cup {nextId}]
    /\ nextId' = nextId + 1
    /\ afterLoad' = Written(nextId)
    /\ UNCHANGED << now, ticks, fileExists, stop_event, stopAt, notEnvCore >>

NextBurst ==
    \/ ValidateLogFile
    \/ LoopExit
    \/ PollUnchanged
    \/ PollChanged
    \/ LoadEmpty
    \/ LoadInitial
    \/ LoadNew
    \/ Dispatch
    \/ Wake
    \/ TickBurst
    \/ AppendStamped
    \/ SetStop

SpecBurst == InitBurst /\ [][NextBurst]_vars

\* -------------------------------------------------- the text of a line
\* A line is the sequence of the pieces that single spaces separate in it
\* (an empty piece stands between two adjacent spaces).  The date and time
\* pieces, and what strptime with '%Y-%m-%d %H:%M:%S,%f' makes of them:
\* year, month, day and hour, minute, second, microsecond.  A piece outside
\* the table makes strptime raise ValueError.
DateFields ==
    "2025-05-26" :> << 2025, 5, 26 >> @@ "2025-5-26" :> << 2025, 5, 26 >>

TimeFields ==
    "09:33:40,383" :> << 9, 33, 40, 383000 >>
    @@ "09:33:40,383123" :> << 9, 33, 40, 383123 >>
    @@ "09:33:40,5" :> << 9, 33, 40, 500000 >>
    @@ "23:59:59,999" :> << 23, 59, 59, 999000 >>

DatePieces == DOMAIN DateFields \cup { "05/26/2025", "2025-02-30" }
TimePieces == DOMAIN TimeFields \cup { "09:33:40" }

\* strftime with '%Y-%m-%d' and with '%H:%M:%S,%f' cut by [:-3], which
\* leaves the first three digits of the microseconds.
FormatDate == << 2025, 5, 26 >> :> "2025-05-26"

FormatTime ==
    << 9, 33, 40, 383 >> :> "09:33:40,383"
    @@ << 9, 33, 40, 500 >> :> "09:33:40,500"
    @@ << 23, 59, 59, 999 >> :> "23:59:59,999"

\* The members of LogLevel, and str.upper on the level pieces used here.
LogLevel == { "DEBUG", "INFO", "WARNING", "ERROR", "CRITICAL" }

upper(level) ==
    CASE level = "info" -> "INFO"
      [] level = "severe" -> "SEVERE"
      [] OTHER -> level

LevelPieces == LogLevel \cup { "SEVERE", "info", "severe", "TRACE", "" }
MessagePieces == { "Sync", "" }

\* Mutant: SEVERE is not a synonym.
LogLevel_from_string_no_synonym(level) ==
    IF upper(level) \in LogLevel
    THEN [value |-> upper(level), error |-> None]
    ELSE [value |-> "INFO", error |-> None]

\* Mutant: the KeyError of an unknown level is not caught.
LogLevel_from_string_uncaught(level) ==
    IF level = "SEVERE" THEN [value |-> "ERROR", error |-> None]
    ELSE IF upper(level) \in LogLevel
    THEN [value |-> upper(level), error |-> None]
    ELSE [value |-> None, error |-> "KeyError"]

\* LogLevel.from_string: SEVERE is ERROR, a member name in any case is that
\* member, and the KeyError of anything else is caught and gives INFO.
LogLevel_from_string(level) ==
    IF level = "SEVERE" THEN [value |-> "ERROR", error |-> None]
    ELSE IF upper(level) \in LogLevel
    THEN [value |-> upper(level), error |-> None]
    ELSE [value |-> "INFO", error |-> None]

\* LogEntry.__init__ on the text of the timestamp (date and time pieces),
\* of the level and of the message: the entry, or the error raised.
LogEntry_init(date, time, level, message) ==
    IF date \notin DOMAIN DateFields \/ time \notin DOMAIN TimeFields
    THEN [error |-> "ValueError", entry |-> << >>]
    ELSE LET lv == IF level # "" THEN LogLevel_from_string(level)
                   ELSE [value |-> "INFO", error |-> None]
         IN IF lv.error # None
            THEN [error |-> lv.error, entry |-> << >>]
            ELSE [error |-> None,
                  entry |-> << [timestamp |-> DateFields[date] \o TimeFields[time],
                                level |-> lv.value,
                                message |-> message] >>]

\* LogEntry.__str__: the text, as its pieces.
LogEntry_str(entry) ==
    LET ts == entry.timestamp IN
    << FormatDate[<< ts[1], ts[2], ts[3] >>],
       FormatTime[<< ts[4], ts[5], ts[6], ts[7] \div 1000 >>],
       entry.level >> \o entry.message

\* log_entry_from_line on the text: line.split(' ', 3) gives the first
\* three pieces and the rest of the line as the message.
log_entry_from_text(line) ==
    IF Len(line) < 4
    THEN [error |-> "ValueError", entry |-> << >>]
    ELSE LogEntry_init(line[1], line[2], line[3], SubSeq(line, 4, Len(line)))

TextLines ==
    UNION { { l \in [1 .. n -> DatePieces \cup TimePieces \cup LevelPieces
                                  \cup MessagePieces] :
                /\ l[1] \in DatePieces
                /\ n >= 2 => l[2] \in TimePieces
                /\ n >= 3 => l[3] \in LevelPieces
                /\ \A k \in 4 .. n : l[k] \in MessagePieces }
            : n \in 1 .. MaxSegments }

InitText ==
    /\ now = 0
    /\ ticks = 0
    /\ fileExists = TRUE
    /\ lines = << >>
    /\ mtime = 0
    /\ nextId = 1
    /\ stop_event = FALSE
    /\ logs_loaded_event = FALSE
    /\ callbacks = default_callbacks
    /\ NOTIFICATIONS_AVAILABLE = TRUE
    /\ pc = "start"
    /\ last_modified = EpochStart
    /\ last_seen_log_entry = << >>
    /\ consecutive_failures = 0
    /\ delay = 0
    /\ wake = 0
    /\ pending = << >>
    /\ last_notification_time = DatetimeMin
    /\ last_callback_time = DatetimeMin
    /\ invocations = << >>
    /\ requests = << >>
    /\ dropped = {}
    /\ startedAbsent = FALSE
    /\ absentRun = 0
    /\ excFlag = 0
    /\ afterLoad = {}
    /\ stopAt = None
    /\ readFault = -1
    /\ registrations = << >>
    /\ lastCall = NoCall
    /\ threads = NoThreads
    /\ rawLine \in TextLines
    /\ history = NoHistory
    /\ clear = NoClear

\* entry = log_entry_from_line(line).
LogEntryFromLine ==
    /\ lastCall.op = "none"
    /\ lastCall' = [op |-> "log_entry_from_line", message |-> {}, cbs |-> << >>,
                    result |-> << log_entry_from_text(rawLine) >>]
    /\ UNCHANGED << envVars, dispatchVars, ghostVars, loopVars, callbacks,
                    NOTIFICATIONS_AVAILABLE, readFault, registrations, directVars >>

\* str(entry) of the entry just parsed.
Str ==
    /\ lastCall.op = "log_entry_from_line"
    /\ lastCall.result[1].error = None
    /\ lastCall' = [op |-> "str", message |-> {}, cbs |-> << >>,
                    result |-> << lastCall.result[1],
                                  LogEntry_str(lastCall.result[1].entry[1]) >>]
    /\ UNCHANGED << envVars, dispatchVars, ghostVars, loopVars, callbacks,
                    NOTIFICATIONS_AVAILABLE, readFault, registrations, directVars >>

NextText ==
    \/ LogEntryFromLine
    \/ Str

SpecText == InitText /\ [][NextText]_vars

\* ------------------------------------------- two dispatchers side by side
\* check_trigger_strings run by two threads of one process on entries whose
\* message holds the value of a trigger with a callback.  The function takes
\* no lock, so the threads interleave between its statements: the cooldown
\* test, send_notification, and the assignment to _last_callback_time
\* followed by the call of the callback.
RaceMessage == { TriggerValue["FAILED_GET_REFERENCE_TABLES"] }
RaceTickSteps == { 1, CallbackCooldown }

InitRace ==
    /\ now = 0
    /\ ticks = 0
    /\ fileExists = TRUE
    /\ lines = << >>
    /\ mtime = 0
    /\ nextId = 1
    /\ stop_event = FALSE
    /\ logs_loaded_event = FALSE
    /\ callbacks = default_callbacks
    /\ NOTIFICATIONS_AVAILABLE = TRUE
    /\ pc = "dispatch"
    /\ last_modified = EpochStart
    /\ last_seen_log_entry = << >>
    /\ consecutive_failures = 0
    /\ delay = 0
    /\ wake = 0
    /\ pending = << >>
    /\ last_notification_time = DatetimeMin
    /\ last_callback_time = DatetimeMin
    /\ invocations = << >>
    /\ requests = << >>
    /\ dropped = {}
    /\ startedAbsent = FALSE
    /\ absentRun = 0
    /\ excFlag = 0
    /\ afterLoad = {}
    /\ stopAt = None
    /\ readFault = -1
    /\ registrations = << >>
    /\ lastCall = NoCall
    /\ threads = NoThreads
    /\ rawLine = << >>
    /\ history = NoHistory
    /\ clear = NoClear

TickRace ==
    /\ ticks < MaxRaceTicks
    /\ \E d \in RaceTickSteps : now' = now + d
    /\ ticks' = ticks + 1
    /\ UNCHANGED << fileExists, lines, mtime, nextId, stop_event, stopAt, afterLoad,
                    dispatchVars, ghostVars, loopVars, callbacks,
                    NOTIFICATIONS_AVAILABLE, auxVars >>

\* Dispatcher d enters check_trigger_strings with a new entry and evaluates
\* "(now - _last_callback_time).total_seconds() < 15": the break, or on.
RaceCheck(d) ==
    /\ threads[d].at = "idle"
    /\ nextId <= MaxRaceChecks
    /\ FirstMatch(RaceMessage) # 0
    /\ callbacks[TriggerString[FirstMatch(RaceMessage)]] # None
    /\ nextId' = nextId + 1
    /\ IF CallbackTooSoon(now, last_callback_time)
       THEN /\ dropped' = dropped \cup { nextId }
            /\ UNCHANGED threads
       ELSE /\ threads' = [threads EXCEPT ![d] = [at |-> "passed", id |-> nextId]]
            /\ UNCHANGED dropped
    /\ UNCHANGED << now, ticks, fileExists, lines, mtime, stop_event, stopAt, afterLoad,
                    last_notification_time, last_callback_time, invocations, requests,
                    ghostVars, loopVars, callbacks, NOTIFICATIONS_AVAILABLE,
                    readFault, registrations, lastCall, rawLine, history, clear >>

\* Dispatcher d calls send_notification.
RaceNotify(d) ==
    /\ threads[d].at = "passed"
    /\ \E notifyOK \in BOOLEAN :
         LET n == send_notification(now, last_notification_time,
                                    NOTIFICATIONS_AVAILABLE, notifyOK) IN
         /\ last_notification_time' = n.lnt
         /\ requests' = Append(requests, [id |-> threads[d].id, t |-> now,
                                          ret |-> n.ret, sent |-> n.sent])
    /\ threads' = [threads EXCEPT ![d].at = "notified"]
    /\ UNCHANGED << envVars, last_callback_time, invocations, dropped,
                    ghostVars, loopVars, callbacks, NOTIFICATIONS_AVAILABLE,
                    readFault, registrations, lastCall, rawLine, history, clear >>

\* Dispatcher d executes "_last_callback_time = datetime.datetime.now()"
\* and calls the callback, then returns.
RaceCall(d) ==
    /\ threads[d].at = "notified"
    /\ last_callback_time' = now
    /\ invocations' =
          Append(invocations,
                 [id |-> threads[d].id, t |-> now,
                  trigger |-> TriggerString[FirstMatch(RaceMessage)],
                  raised |-> FALSE])
    /\ threads' = [threads EXCEPT ![d].at = "idle"]
    /\ UNCHANGED << envVars, last_notification_time, requests, dropped,
                    ghostVars, loopVars, callbacks, NOTIFICATIONS_AVAILABLE,
                    readFault, registrations, lastCall, rawLine, history, clear >>

NextRace ==
    \/ TickRace
    \/ \E d \in Dispatchers : RaceCheck(d)
    \/ \E d \in Dispatchers : RaceNotify(d)
    \/ \E d \in Dispatchers : RaceCall(d)

SpecRace == InitRace /\ [][NextRace]_vars

\* ================================================================ claims
InvocationsOf(id) == { i \in DOMAIN invocations : invocations[i].id = id }

\* The step is a callback invocation that raised.
RaisedNow ==
    /\ Len(invocations') = Len(invocations) + 1
    /\ invocations'[Len(invocations')].raised

\* The entry is an occurrence of a trigger that has a callback bound.
Occurrence(entry) ==
    /\ FirstMatch(entry.message) # 0
    /\ callbacks[TriggerString[FirstMatch(entry.message)]] # None

\* C1: within the callback cooldown that starts at a callback invocation no
\* other callback is invoked: any two invocations are at least 15 seconds
\* apart, so a burst examined inside the window causes exactly one.
C1_OneCallbackPerWindow ==
    \A i, j \in DOMAIN invocations :
        i < j => invocations[j].t - invocations[i].t >= CallbackCooldown

\* C1 witness: one invocation, and inside its window another entry of the
\* burst was examined and its callback dropped.
C1_BurstDropped ==
    /\ Len(invocations) = 1
    /\ now - invocations[1].t < CallbackCooldown
    /\ \E d \in dropped : d # invocations[1].id

\* C2: no entry causes a callback invocation in more than one poll (an entry
\* is examined at most once per poll, so: no two invocations are for the
\* same entry).
C2_NoEntryDispatchedTwice ==
    \A i, j \in DOMAIN invocations :
        i # j => invocations[i].id # invocations[j].id

\* C3: the step that sets last_seen_log_entry for the first time sets it to
\* the newest loaded entry, invokes no callback, requests no notification
\* and passes none of the loaded entries to trigger checking.
C3_InitialLoadSilent ==
    [][ (last_seen_log_entry = << >> /\ last_seen_log_entry' # << >>) =>
          LET entries == parse_log(fileExists, lines, readFault, now) IN
          /\ entries # << >>
          /\ last_seen_log_entry'[1] = entries[1]
          /\ \A k \in DOMAIN entries :
                 entries[k].timestamp <= last_seen_log_entry'[1].timestamp
          /\ invocations' = invocations
          /\ requests' = requests
          /\ pending' = << >>
          /\ pc' = "sleep"
          /\ UNCHANGED << last_callback_time, last_notification_time >> ]_vars

\* C3 witness: the initial load is over, the entry it loaded contains a
\* trigger substring, and nothing was invoked or requested.
C3_InitialLoadOfTrigger ==
    /\ logs_loaded_event
    /\ pc = "sleep"
    /\ last_seen_log_entry # << >>
    /\ Occurrence(last_seen_log_entry[1])
    /\ invocations = << >>
    /\ requests = << >>

\* C4: a trigger line written after the initial load has its callback
\* invoked exactly once; checked here is that it is never invoked twice.
C4_AppendedTriggerInvokedOnce ==
    \A id \in afterLoad : Cardinality(InvocationsOf(id)) <= 1

\* C5: started while the log file does not exist, main_loop does not
\* terminate (it backs off until the file appears).
C5_AbsentAtStartBacksOff ==
    startedAbsent => pc \in {"loop", "sleep", "load", "dispatch"}

\* C6: main_loop returns only after stop_event has been set.
C6_ReturnsOnlyAfterStop == pc = "done" => stop_event

\* C7: a callback that raises is caught in main_loop: the loop counts a
\* failure and sleeps, keeps last_modified and last_seen_log_entry, and does
\* not return unless stop_event is set.
C7_CallbackErrorCaught ==
    /\ [][ RaisedNow =>
             /\ pc' = "sleep"
             /\ consecutive_failures' = consecutive_failures + 1
             /\ delay' = BackoffDelay(consecutive_failures')
             /\ UNCHANGED << last_modified, last_seen_log_entry >> ]_vars
    /\ []( (pc = "done" /\ \E i \in DOMAIN invocations : invocations[i].raised)
             => stop_event )

\* C7 witness: after a callback raised, a line written later was detected
\* by a later poll and its callback invoked.
C7_DispatchAfterError ==
    \E i, j \in DOMAIN invocations :
        /\ i < j
        /\ invocations[i].raised
        /\ \E k \in DOMAIN lines :
               /\ lines[k].id = invocations[j].id
               /\ lines[k].ts > invocations[i].t

\* The step is a poll that found the file absent.
AbsentPoll == absentRun' = absentRun + 1

\* C8 as claimed: the delay after the k-th consecutive absence is min(1*k, 10).
C8_DelayIsMinOfAbsences ==
    [][ AbsentPoll => delay' = Min(base_delay * absentRun', max_delay) ]_vars

\* C8 as amended: consecutive_failures counts the consecutive absences and,
\* before them, the exception that ended the last poll in which the file
\* existed; the delay after an absence is min(1*consecutive_failures, 10);
\* a poll in which the file exists resets consecutive_failures to 0.
C8_DelayIsMinOfFailures ==
    [][ /\ AbsentPoll =>
             /\ consecutive_failures' = absentRun' + excFlag
             /\ delay' = Min(base_delay * (absentRun' + excFlag), max_delay)
             /\ pc' = "sleep"
             /\ wake' = now + delay'
        /\ (pc = "loop" /\ pc' \in {"sleep", "load"} /\ fileExists) =>
             consecutive_failures' = 0 ]_vars

\* C8 witness: the eleventh consecutive absence sleeps the capped delay.
C8_CapReached ==
    /\ pc = "sleep"
    /\ absentRun = max_delay + 1
    /\ delay = max_delay

Examines == pc = "dispatch" /\ pending # << >> /\ pending' # pending

\* C11: an occurrence of a trigger with a bound callback that is examined
\* at least 15 seconds after the previous callback invocation (or when there
\* has been none) invokes its callback: the step adds the invocation of that
\* trigger for that entry, at the time of the examination.
C11_SpacedOccurrenceInvoked ==
    [][ ( /\ Examines
          /\ Occurrence(Head(pending))
          /\ \A i \in DOMAIN invocations :
                 now - invocations[i].t >= CallbackCooldown )
        => /\ Len(invocations') = Len(invocations) + 1
           /\ invocations'[Len(invocations')].id = Head(pending).id
           /\ invocations'[Len(invocations')].t = now
           /\ invocations'[Len(invocations')].trigger =
                  TriggerString[FirstMatch(Head(pending).message)] ]_vars

\* C11 witness: two occurrences written at different times, the second
\* examined at least 15 seconds after the invocation of the first, and both
\* invoked.
C11_TwoSpacedInvocations ==
    \E i, j \in DOMAIN invocations :
        /\ i < j
        /\ invocations[i].id < invocations[j].id
        /\ invocations[j].t - invocations[i].t >= CallbackCooldown
        /\ ~invocations[i].raised

\* The well-formed lines of the file are in chronological order.
FileChronological ==
    \A i, j \in DOMAIN lines :
        (i < j /\ lines[i].wellformed /\ lines[j].wellformed)
            => lines[i].ts <= lines[j].ts

\* C12: the new entries of one loading pass are passed to trigger checking
\* oldest first: when a load of a file in chronological order hands over
\* its new entries, then of two entries newer than the last seen one, with
\* different timestamps, the older one comes first.
C12_NewEntriesOldestFirst ==
    [][ ( /\ pc = "load"
          /\ pc' = "dispatch"
          /\ last_seen_log_entry # << >>
          /\ FileChronological )
        => \A i, j \in DOMAIN pending' :
               ( /\ i < j
                 /\ pending'[i].timestamp > last_seen_log_entry[1].timestamp
                 /\ pending'[j].timestamp > last_seen_log_entry[1].timestamp )
               => pending'[i].timestamp <= pending'[j].timestamp ]_vars

\* C13: last_modified never decreases; once last_seen_log_entry is set it
\* stays set and its timestamp never decreases.
C13_MonitorStateMovesForward ==
    [][ /\ last_modified' >= last_modified
        /\ last_seen_log_entry # << >> =>
              /\ last_seen_log_entry' # << >>
              /\ last_seen_log_entry'[1].timestamp
                     >= last_seen_log_entry[1].timestamp ]_vars

\* C13 witness: main_loop sleeps after a poll that found the file with a
\* modification time older than last_modified and holding only entries
\* older than last_seen_log_entry, and another entry in front of an older one.
C13_FileWentBackwards ==
    /\ pc = "sleep"
    /\ fileExists
    /\ mtime < last_modified
    /\ last_seen_log_entry # << >>
    /\ Len(lines) = MaxFileLen
    /\ ~FileChronological
    /\ \A k \in DOMAIN lines :
           lines[k].wellformed /\ lines[k].ts < last_seen_log_entry[1].timestamp

\* The read of the load in progress fails: the file has vanished since its
\* modification time was taken, or the read raises before the last line.
ReadFails ==
    /\ pc = "load"
    /\ pc' # "load"
    /\ \/ ~fileExists
       \/ readFault # -1 /\ readFault < Len(lines)

\* C15: a load whose read fails is treated like file absence:
\* consecutive_failures is incremented and the backoff delay is slept.
C15_ReadFailureBacksOff ==
    [][ ReadFails =>
          /\ consecutive_failures' = consecutive_failures + 1
          /\ pc' = "sleep"
          /\ delay' = BackoffDelay(consecutive_failures') ]_vars

\* C14: once stop_event is set, main_loop eventually returns.  After the
\* signal the loop starts no new poll (at the head of the loop it can only
\* return), the poll in progress runs to its sleep or to the head of the
\* loop, a sleep ends at the head of the loop, and no sleep is asked to last
\* longer than max_delay.
C14_StopLeadsToReturn ==
    /\ stop_event ~> pc = "done"
    /\ [][ stop_event =>
              /\ pc = "loop" => pc' = "done"
              /\ pc = "sleep" => pc' \in {"sleep", "loop"}
              /\ pc \in {"load", "dispatch"} =>
                     pc' \in {"dispatch", "sleep", "loop"}
              /\ pc = "done" => pc' = "done" ]_vars
    /\ [](pc = "sleep" => delay <= max_delay /\ wake - now <= max_delay)

\* C14 witness: stop_event was set while a poll was loading the file, and
\* main_loop has returned.
C14_StoppedDuringPoll ==
    /\ pc = "done"
    /\ stop_event
    /\ stopAt = "load"
    /\ last_seen_log_entry # << >>

\* The step starts a sleep.
StartsSleep == pc # "sleep" /\ pc' = "sleep"

\* The step is a poll that finds the file present and not newer than
\* last_modified.
UnchangedPoll ==
    /\ pc = "loop"
    /\ ~stop_event
    /\ pc' # "loop"
    /\ fileExists
    /\ ~(mtime > last_modified)

\* C16: a poll in which the file exists and is not newer than last_modified
\* sleeps exactly base_delay with consecutive_failures 0; a sleep longer
\* than base_delay, or with consecutive_failures above 0, starts only after
\* a poll that found the file absent or after an exception.
C16_BackoffOnlyOnFailure ==
    [][ /\ UnchangedPoll =>
              /\ pc' = "sleep"
              /\ delay' = base_delay
              /\ wake' = now + base_delay
              /\ consecutive_failures' = 0
        /\ (StartsSleep /\ ~AbsentPoll /\ ~RaisedNow) =>
              /\ delay' = base_delay
              /\ consecutive_failures' = 0 ]_vars

\* C16 witness: after absences that were backed off (the counter had grown)
\* the file is back and loaded, and a later poll that found it unchanged
\* sleeps base_delay with the counter at 0: the sleep ends later than one
\* base_delay after the file's modification.
C16_UnchangedPollSleepsBase ==
    /\ pc = "sleep"
    /\ fileExists
    /\ mtime = last_modified
    /\ mtime > 2 * max_delay
    /\ wake > mtime + base_delay
    /\ delay = base_delay
    /\ consecutive_failures = 0

RECURSIVE Flat(_)
Flat(calls) == IF calls = << >> THEN << >> ELSE Head(calls) \o Flat(Tail(calls))

LatestFor(t) ==
    LET regs == Flat(registrations)
        R == { i \in DOMAIN regs : regs[i][1] = t }
    IN IF R = {} THEN None
       ELSE regs[CHOOSE i \in R : \A j \in R : j <= i][2]

\* C18: after any sequence of registrations each trigger has the callback
\* of the latest registration for it (None when there was none), and
\* registering a callback a second time leaves the registry as after the
\* first time.
C18_LastWriteWins ==
    /\ \A t \in TriggerNames : callbacks[t] = LatestFor(t)
    /\ \A t \in TriggerNames, cb \in Callables :
           LET once == register_trigger_callback(callbacks, t, cb) IN
           /\ register_trigger_callback(once, t, cb) = once
           /\ once[t] = cb
           /\ \A u \in TriggerNames \ {t} : once[u] = callbacks[u]

\* C18 witness: a trigger bound by setup_trigger_callbacks was registered
\* again with another callback, and has the later one.
C18_Overwritten ==
    LET regs == Flat(registrations) IN
    \E i, j \in DOMAIN regs :
        /\ i < j
        /\ regs[i][1] = regs[j][1]
        /\ regs[i][2] = default_callbacks[regs[i][1]]
        /\ regs[j][2] \in Callables
        /\ LatestFor(regs[j][1]) = regs[j][2]
        /\ callbacks[regs[j][1]] = regs[j][2]

\* The triggers, by position in the declaration, whose value the message
\* contains, and the earliest of them.
Matching(message) ==
    { i \in DOMAIN TriggerString : TriggerValue[TriggerString[i]] \in message }

Earliest(message) ==
    CHOOSE i \in Matching(message) : \A j \in Matching(message) : i <= j

\* C19: from_message returns the first trigger, in declaration order, whose
\* value the message contains, and UNKNOWN when it contains none.
C19_FromMessageMatchesValue ==
    lastCall.op = "from_message" =>
        lastCall.result[1] =
            IF Matching(lastCall.message) = {} THEN "UNKNOWN"
            ELSE TriggerString[Earliest(lastCall.message)]

\* C20: check_trigger_strings invokes no callback but that of the trigger
\* declared earliest among those whose value the message contains; when
\* that trigger has no callback bound nothing is invoked or requested, also
\* when a later matching trigger has one; no entry gets two invocations.
C20_EarliestTriggerOnly ==
    /\ lastCall.op = "check_trigger_strings" =>
          LET m == lastCall.message
              r == lastCall.result[1]
              cbs == lastCall.cbs[1]
          IN
          /\ Len(r.request) <= 1
          /\ Matching(m) = {} => r.invoked = None
          /\ Matching(m) # {} =>
                LET e == TriggerString[Earliest(m)] IN
                /\ r.invoked \in {None, e}
                /\ cbs[e] = None => (r.invoked = None /\ r.request = << >>)
                /\ (cbs[e] # None /\ ~r.dropped) => r.invoked = e
    /\ \A i, j \in DOMAIN invocations :
           i # j => invocations[i].id # invocations[j].id

\* C20 witness: the message contains the values of two triggers, the
\* earlier one has no callback bound and the later one has, and nothing was
\* invoked.
C20_EarliestUnboundLaterBound ==
    /\ lastCall.op = "check_trigger_strings"
    /\ Cardinality(Matching(lastCall.message)) = 2
    /\ lastCall.cbs[1][TriggerString[Earliest(lastCall.message)]] = None
    /\ \E i \in Matching(lastCall.message) : lastCall.cbs[1][TriggerString[i]] # None
    /\ lastCall.result[1].invoked = None
    /\ lastCall.result[1].ret
    /\ invocations = << >>

\* C21: check_trigger_strings returns True exactly when the message
\* contains the value of some trigger, with or without a callback bound and
\* with or without the cooldown in force.
C21_TrueIffTriggerFound ==
    lastCall.op = "check_trigger_strings" =>
        (lastCall.result[1].ret <=> Matching(lastCall.message) # {})

\* C26: when the invoked callback raises, _last_callback_time keeps the
\* value it had before the examination.
C26_TrackerKeptWhenCallbackRaises ==
    [][ RaisedNow => last_callback_time' = last_callback_time ]_vars

\* The lines parse_log gets from read_log_file.
LinesRead == read_log_file(fileExists, lines, readFault)

\* C22: parse_log returns no entry older than the cutoff (now minus 2 hours).
C22_NoEntryOlderThanCutoff ==
    lastCall.op = "parse_log" =>
        \A k \in DOMAIN lastCall.result[1] :
            lastCall.result[1][k].timestamp >= now - CutoffSeconds

\* C22 witness: parse_log returned entries from a file that holds a
\* malformed line and a line older than the cutoff, with timestamps out of
\* order.
C22_ParsedMixedFile ==
    /\ lastCall.op = "parse_log"
    /\ lastCall.result[1] # << >>
    /\ \E i \in DOMAIN LinesRead : ~LinesRead[i].wellformed
    /\ \E i \in DOMAIN LinesRead :
           LinesRead[i].wellformed /\ LinesRead[i].ts < now - CutoffSeconds
    /\ \E i, j \in DOMAIN LinesRead :
           /\ i < j
           /\ LinesRead[i].wellformed /\ LinesRead[j].wellformed
           /\ LinesRead[i].ts > LinesRead[j].ts

\* The well-formed lines read are in chronological order.
ReadChronological ==
    \A i, j \in DOMAIN LinesRead :
        (i < j /\ LinesRead[i].wellformed /\ LinesRead[j].wellformed)
            => LinesRead[i].ts <= LinesRead[j].ts

NewestFirst(entries) ==
    \A i, j \in DOMAIN entries :
        i < j => entries[i].timestamp >= entries[j].timestamp

\* C23 as claimed: for every file content the result of parse_log is in
\* non-increasing timestamp order.
C23_NewestFirstAlways ==
    lastCall.op = "parse_log" => NewestFirst(lastCall.result[1])

\* C23 as amended: the result is in non-increasing timestamp order when the
\* well-formed lines of the file are in chronological order.
C23_NewestFirstOfChronological ==
    (lastCall.op = "parse_log" /\ ReadChronological)
        => NewestFirst(lastCall.result[1])

\* C23 witness: a chronological file gave entries of different timestamps.
C23_TwoStampsNewestFirst ==
    /\ lastCall.op = "parse_log"
    /\ ReadChronological
    /\ Len(lastCall.result[1]) >= 2
    /\ lastCall.result[1][1].timestamp > lastCall.result[1][2].timestamp

\* The position of the last well-formed line older than the cutoff (0 when
\* there is none), and the well-formed lines after it.
LastOld ==
    LET O == { i \in DOMAIN LinesRead :
                 LinesRead[i].wellformed /\ LinesRead[i].ts < now - CutoffSeconds }
    IN IF O = {} THEN 0 ELSE CHOOSE i \in O : \A j \in O : j <= i

Kept == { i \in DOMAIN LinesRead : LinesRead[i].wellformed /\ i > LastOld }

\* C24: the result of parse_log is exactly the well-formed lines that
\* follow the last well-formed line older than the cutoff, in reverse file
\* order.
C24_ResultIsTailReversed ==
    lastCall.op = "parse_log" =>
        LET r == lastCall.result[1] IN
        /\ Len(r) = Cardinality(Kept)
        /\ \A k \in DOMAIN r :
               \E i \in Kept :
                   /\ r[k] = LogEntry(LinesRead[i])
                   /\ Cardinality({ j \in Kept : j > i }) = k - 1

\* C24 witness: an in-window line in front of an old line was dropped, a
\* malformed line after the old line was skipped, and the line after that
\* was returned.
C24_DroppedBeforeOldLine ==
    /\ lastCall.op = "parse_log"
    /\ Len(lastCall.result[1]) = 1
    /\ LastOld > 1
    /\ \E i \in 1 .. LastOld - 1 :
           LinesRead[i].wellformed /\ LinesRead[i].ts >= now - CutoffSeconds
    /\ \E i \in DOMAIN LinesRead : i > LastOld /\ ~LinesRead[i].wellformed

\* C30: for a file that does not exist check_last_modified returns None
\* and parse_log returns the empty list, and the call changes nothing of
\* the monitor or of the cooldown trackers.
C30_AbsenceIsAValue ==
    [][ (~fileExists /\ lastCall' # lastCall) =>
          /\ lastCall'.op = "check_last_modified" => lastCall'.result = << << >> >>
          /\ lastCall'.op = "parse_log" => lastCall'.result = << << >> >>
          /\ UNCHANGED << loopVars, dispatchVars, ghostVars, callbacks >> ]_vars

\* C30 witness: parse_log was called for a missing file and returned the
\* empty list.
C30_ParsedMissingFile ==
    /\ ~fileExists
    /\ lastCall.op = "parse_log"
    /\ lastCall.result[1] = << >>
    /\ last_modified = EpochStart
    /\ last_callback_time = DatetimeMin

\* C27: logs_loaded_event is one-shot: it changes only from unset to set,
\* in the load that makes last_seen_log_entry present for the first time and
\* in every such load, and whenever it is set last_seen_log_entry is present.
C27_LoadedSignalOneShot ==
    [][ /\ (logs_loaded_event' # logs_loaded_event) =>
              /\ ~logs_loaded_event /\ logs_loaded_event'
              /\ pc = "load"
              /\ last_seen_log_entry = << >> /\ last_seen_log_entry' # << >>
        /\ (last_seen_log_entry = << >> /\ last_seen_log_entry' # << >>)
              => logs_loaded_event'
        /\ logs_loaded_event' => last_seen_log_entry' # << >> ]_vars

\* C27 witness: a load after the initial one found new entries while the
\* event, set by the initial load, is still set.
C27_LaterLoadAfterSignal ==
    /\ logs_loaded_event
    /\ pc = "dispatch"
    /\ pending # << >>
    /\ last_seen_log_entry # << >>

\* A line of the form 'YYYY-MM-DD HH:MM:SS,mmm LEVEL message' whose level the
\* parser recognizes.
CanonicalStamp ==
    /\ rawLine[1] = "2025-05-26"
    /\ rawLine[2] \in { "09:33:40,383", "23:59:59,999" }

RecognizedLevels == LogLevel \cup { "SEVERE", "info" }

WellFormedLine ==
    /\ Len(rawLine) >= 4
    /\ CanonicalStamp
    /\ rawLine[3] \in RecognizedLevels

\* C28 as claimed: str(log_entry_from_line(line)) is the line again, for
\* every well-formed line whose level is one the parser recognizes, SEVERE
\* and lower-case names included.
C28_RoundTripEveryRecognizedLevel ==
    (lastCall.op = "str" /\ WellFormedLine) => lastCall.result[2] = rawLine

\* C28 as amended: the timestamp and the message of a well-formed line are
\* reproduced exactly; the level is reproduced exactly when it is written
\* as the name of a LogLevel member, while SEVERE comes back as ERROR and a
\* lower-case name comes back in upper case.
C28_RoundTripUpToLevelName ==
    (lastCall.op = "str" /\ WellFormedLine) =>
        LET text == lastCall.result[2] IN
        /\ Len(text) = Len(rawLine)
        /\ \A k \in DOMAIN rawLine : k # 3 => text[k] = rawLine[k]
        /\ rawLine[3] \in LogLevel => text[3] = rawLine[3]
        /\ rawLine[3] = "SEVERE" => text[3] = "ERROR"
        /\ rawLine[3] = "info" => text[3] = "INFO"

\* C28 witness: a well-formed SEVERE line with a message of two pieces was
\* parsed and formatted, and came back as an ERROR line.
C28_SevereComesBackAsError ==
    /\ lastCall.op = "str"
    /\ WellFormedLine
    /\ rawLine[3] = "SEVERE"
    /\ Len(rawLine) = 5
    /\ lastCall.result[2] =
          << rawLine[1], rawLine[2], "ERROR", rawLine[4], rawLine[5] >>

\* The date and time pieces that match '%Y-%m-%d %H:%M:%S,%f'.
MatchingDates == { "2025-05-26", "2025-5-26" }
MatchingTimes == { "09:33:40,383", "09:33:40,383123", "09:33:40,5", "23:59:59,999" }

\* C29: log_entry_from_line raises ValueError exactly when the line has
\* fewer than four segments or its date and time do not match the timestamp
\* format; the level never makes it fail (an unknown level is INFO, SEVERE
\* is ERROR) and no other error is raised.
C29_ValueErrorExactlyOnShapeOrStamp ==
    lastCall.op = "log_entry_from_line" =>
        LET r == lastCall.result[1]
            bad == \/ Len(rawLine) < 4
                   \/ rawLine[1] \notin MatchingDates
                   \/ rawLine[2] \notin MatchingTimes
        IN
        /\ r.error \in { None, "ValueError" }
        /\ r.error = "ValueError" <=> bad
        /\ ~bad =>
              r.entry[1].level =
                  IF rawLine[3] = "SEVERE" THEN "ERROR"
                  ELSE IF rawLine[3] \in LogLevel THEN rawLine[3]
                  ELSE "INFO"

\* C29 witness: a line with a matching timestamp and an unknown level was
\* parsed without error, as an INFO entry.
C29_UnknownLevelParsedAsInfo ==
    /\ lastCall.op = "log_entry_from_line"
    /\ Len(rawLine) >= 4
    /\ rawLine[3] = "TRACE"
    /\ lastCall.result[1].error = None
    /\ lastCall.result[1].entry[1].level = "INFO"

IdsOf(entries) == { entries[k].id : k \in DOMAIN entries }

\* A load ends: parse_log has returned and main_loop has decided what to
\* check.
LoadEnds == pc = "load" /\ pc' # "load"

\* C31: the entries of a batch that were left when a callback raised are
\* still checked: a later load of a file that still holds them hands them
\* to check_trigger_strings.  Only lines written after the initial load
\* are considered.
C31_LeftoverCheckedLater ==
    [][ LoadEnds =>
          \A k \in DOMAIN lines :
              lines[k].id \in (history.abandoned \cap afterLoad) \ history.examined
                  => lines[k].id \in IdsOf(pending') ]_vars

\* C32: after a first read that found no entries, the first load that
\* finds entries hands them to check_trigger_strings.
C32_FirstEntriesAfterEmptyReadChecked ==
    [][ (LoadEnds /\ history.emptyRead
           /\ last_seen_log_entry = << >> /\ last_seen_log_entry' # << >>)
          => IdsOf(lines) \subseteq IdsOf(pending') ]_vars

\* No callback has raised so far.
NoCallbackRaised == \A i \in DOMAIN invocations : ~invocations[i].raised

\* C33: with a chronological file inside the window and no callback
\* raising, once main_loop has polled and sleeps, a line written after the
\* initial load has been passed to check_trigger_strings exactly when its
\* writing, or a later one, made the modification time newer than
\* last_modified; a line written with the modification time staying at
\* last_modified has not been examined.
C33_AppendedEntriesExamined ==
    (history.on /\ pc = "sleep" /\ NoCallbackRaised) =>
        \A k \in DOMAIN lines :
            lines[k].id \in afterLoad =>
                (lines[k].id \in history.examined
                    <=> lines[k].id \notin history.unannounced)

\* C33 witness: main_loop sleeps after polls without a raising callback;
\* one line written after the initial load has been examined and another,
\* written without a newer modification time, has not.
C33_ExaminedAndWaiting ==
    /\ history.on /\ pc = "sleep" /\ NoCallbackRaised
    /\ \E k \in DOMAIN lines :
           lines[k].id \in afterLoad /\ lines[k].id \in history.examined
    /\ \E k \in DOMAIN lines :
           /\ lines[k].id \in afterLoad \cap history.unannounced
           /\ lines[k].id \notin history.examined

\* The trigger whose callback check_trigger_strings would look at for a
\* message ("" when no trigger matches).
TriggerOf(message) ==
    IF FirstMatch(message) = 0 THEN "" ELSE TriggerString[FirstMatch(message)]

\* C34: the callback cooldown is one tracker for all triggers: an
\* occurrence of a trigger with a callback, examined less than the callback
\* cooldown after the callback of a different trigger was invoked, is
\* dropped.
C34_CooldownSharedByTriggers ==
    [][ (/\ Examines
         /\ invocations # << >>
         /\ TriggerOf(Head(pending).message) # ""
         /\ callbacks[TriggerOf(Head(pending).message)] # None
         /\ invocations[Len(invocations)].trigger # TriggerOf(Head(pending).message)
         /\ now - invocations[Len(invocations)].t < CallbackCooldown)
        => /\ invocations' = invocations
           /\ Head(pending).id \in dropped' ]_vars

\* C34 witness: a callback of one trigger was invoked and an occurrence of
\* another trigger, written later, was dropped.
C34_OtherTriggerDropped ==
    /\ Len(invocations) = 1
    /\ \E k \in DOMAIN lines :
           /\ lines[k].id \in dropped
           /\ lines[k].id # invocations[1].id
           /\ lines[k].ts - invocations[1].t < CallbackCooldown
           /\ TriggerOf(lines[k].msg) # invocations[1].trigger

\* A direct call of check_trigger_strings is made in this step.
ChecksMessage == nextId' # nextId /\ lastCall'.op = "check_trigger_strings"

\* C35: when the main loop examines an entry whose first matching trigger
\* has a callback while the callback cooldown is running, the entry is
\* dropped: neither tracker changes, no notification is requested and no
\* callback is invoked, also not that of a later trigger of the message.
C35_SkipLeavesStateAlone ==
    [][ (/\ Examines
         /\ TriggerOf(Head(pending).message) # ""
         /\ callbacks[TriggerOf(Head(pending).message)] # None
         /\ now - last_callback_time < CallbackCooldown)
        => /\ UNCHANGED << last_callback_time, last_notification_time,
                           requests, invocations >>
           /\ Head(pending).id \in dropped' ]_vars

\* C35 witness: an entry whose message contains the values of two triggers
\* was dropped at a time later than the one invocation made, and both
\* trackers still hold the time of that invocation.
C35_SkippedLaterThanInvocation ==
    /\ Len(invocations) = 1
    /\ Len(requests) = 1
    /\ dropped # {}
    /\ \E k \in DOMAIN lines :
           /\ lines[k].id \in dropped
           /\ lines[k].id \in history.examined
           /\ lines[k].ts > invocations[1].t
           /\ Cardinality(Matching(lines[k].msg)) = 2
    /\ now > invocations[1].t
    /\ last_callback_time = invocations[1].t
    /\ last_notification_time = invocations[1].t

\* C36: when the first matching trigger has no callback,
\* check_trigger_strings invokes nothing, requests no notification and
\* changes neither tracker.
C36_UnboundTriggerDoesNothing ==
    [][ (/\ ChecksMessage
         /\ TriggerOf(lastCall.message) # ""
         /\ callbacks[TriggerOf(lastCall.message)] = None)
        => UNCHANGED << last_callback_time, last_notification_time,
                        requests, invocations, dropped >> ]_vars

\* C36 witness: after setup_trigger_callbacks, a message that contains only
\* the value of UNKNOWN was checked; nothing was invoked or requested and
\* the trackers have their initial values.
C36_UnknownCheckedAfterSetup ==
    /\ lastCall.op = "check_trigger_strings"
    /\ lastCall.message = { TriggerValue["UNKNOWN"] }
    /\ lastCall.cbs[1]["UNKNOWN"] = None
    /\ lastCall.cbs[1]["FAILED_GET_REFERENCE_TABLES"] # None
    /\ invocations = << >>
    /\ requests = << >>
    /\ last_callback_time = DatetimeMin
    /\ last_notification_time = DatetimeMin

\* C37: a poll in which the file exists and is not newer than last_modified
\* changes none of last_modified, last_seen_log_entry and the two cooldown
\* trackers, does not go on to read the file, and invokes no callback and
\* requests no notification.
C37_UnchangedPollFrame ==
    [][ UnchangedPoll =>
          /\ pc' = "sleep"
          /\ UNCHANGED << last_modified, last_seen_log_entry, last_callback_time,
                          last_notification_time, invocations, requests, dropped,
                          pending, logs_loaded_event >> ]_vars

\* C37 witness: a callback was invoked for a loaded entry, and a sleep that
\* began later than that invocation follows a poll that found the file
\* present and not modified since the load; the trackers still hold the
\* time of the invocation.
C37_UnchangedPollAfterInvocation ==
    /\ pc = "sleep"
    /\ fileExists
    /\ mtime = last_modified
    /\ absentRun = 0
    /\ excFlag = 0
    /\ consecutive_failures = 0
    /\ delay = base_delay
    /\ last_seen_log_entry # << >>
    /\ Len(invocations) = 1
    /\ wake - base_delay > invocations[1].t
    /\ last_modified <= invocations[1].t
    /\ last_callback_time = invocations[1].t
    /\ last_notification_time = invocations[1].t

\* The triggers a registration names.
TriggersOf(items) == { items[i][1] : i \in DOMAIN items }

ClearRetries == -1 .. MaxClearRetries
ClearDelays == 1 .. MaxClearDelay

\* The exceptions the two handlers of hard_clear catch.
ClearErrors == { "PermissionError", "Exception" }

\* Mutant: every retry waits retry_delay.
current_delay_fixed(retry_delay, attempt) == retry_delay

\* current_delay = retry_delay * (2 ** attempt).
current_delay(retry_delay, attempt) == retry_delay * (2 ^ attempt)

\* Everything but now and clear.
clearFrame ==
    << ticks, fileExists, lines, mtime, nextId, stop_event, stopAt, afterLoad,
       dispatchVars, ghostVars, loopVars, callbacks, NOTIFICATIONS_AVAILABLE,
       readFault, registrations, lastCall, threads, rawLine, history >>

\* A call hard_clear(path, max_retries, retry_delay) at the top of its loop.
\* exists is the last result of os.path.exists, attempts the calls of rmtree
\* made, failures the exceptions caught, sleeps the delays slept, removed
\* whether a call of rmtree returned, result the value returned.
InitClear ==
    /\ now = 0
    /\ ticks = 0
    /\ fileExists = TRUE
    /\ lines = << >>
    /\ mtime = 0
    /\ nextId = 1
    /\ stop_event = FALSE
    /\ logs_loaded_event = FALSE
    /\ callbacks = default_callbacks
    /\ NOTIFICATIONS_AVAILABLE = TRUE
    /\ pc = "start"
    /\ last_modified = EpochStart
    /\ last_seen_log_entry = << >>
    /\ consecutive_failures = 0
    /\ delay = 0
    /\ wake = 0
    /\ pending = << >>
    /\ last_notification_time = DatetimeMin
    /\ last_callback_time = DatetimeMin
    /\ invocations = << >>
    /\ requests = << >>
    /\ dropped = {}
    /\ startedAbsent = FALSE
    /\ absentRun = 0
    /\ excFlag = 0
    /\ afterLoad = {}
    /\ stopAt = None
    /\ readFault = -1
    /\ registrations = << >>
    /\ lastCall = NoCall
    /\ threads = NoThreads
    /\ rawLine = << >>
    /\ history = NoHistory
    /\ \E mr \in ClearRetries, rd \in ClearDelays :
         clear = [at |-> "try", max_retries |-> mr, retry_delay |-> rd,
                  attempt |-> 0, exists |-> << >>, attempts |-> 0,
                  failures |-> << >>, current_delay |-> 0, sleeps |-> << >>,
                  removed |-> FALSE, result |-> << >>]

\* An iteration finds that the directory does not exist: return False.
HardClearAbsent ==
    /\ clear.at = "try"
    /\ clear.attempt <= clear.max_retries
    /\ clear' = [clear EXCEPT !.exists = << FALSE >>, !.at = "returned",
                              !.result = << FALSE >>]
    /\ UNCHANGED << now, clearFrame >>

\* An iteration finds the directory and rmtree returns: return True.
HardClearRemoved ==
    /\ clear.at = "try"
    /\ clear.attempt <= clear.max_retries
    /\ clear' = [clear EXCEPT !.exists = << TRUE >>, !.attempts = @ + 1,
                              !.removed = TRUE, !.at = "returned",
                              !.result = << TRUE >>]
    /\ UNCHANGED << now, clearFrame >>

\* An iteration finds the directory and rmtree raises: with retries left the
\* delay is computed and slept next, otherwise return False.
HardClearFailed ==
    /\ clear.at = "try"
    /\ clear.attempt <= clear.max_retries
    /\ \E e \in ClearErrors :
         clear' =
           IF clear.attempt < clear.max_retries
           THEN [clear EXCEPT !.exists = << TRUE >>, !.attempts = @ + 1,
                              !.failures = Append(@, e), !.at = "sleep",
                              !.current_delay =
                                  current_delay(clear.retry_delay, clear.attempt)]
           ELSE [clear EXCEPT !.exists = << TRUE >>, !.attempts = @ + 1,
                              !.failures = Append(@, e), !.at = "returned",
                              !.result = << FALSE >>]
    /\ UNCHANGED << now, clearFrame >>

\* time.sleep(current_delay), then the next iteration.
HardClearSleep ==
    /\ clear.at = "sleep"
    /\ now' = now + clear.current_delay
    /\ clear' = [clear EXCEPT !.sleeps = Append(@, clear.current_delay),
                              !.attempt = @ + 1, !.at = "try"]
    /\ UNCHANGED clearFrame

\* The loop ends without having returned: return False.
HardClearExhausted ==
    /\ clear.at = "try"
    /\ clear.attempt > clear.max_retries
    /\ clear' = [clear EXCEPT !.at = "returned", !.result = << FALSE >>]
    /\ UNCHANGED << now, clearFrame >>

NextClear ==
    \/ HardClearAbsent
    \/ HardClearRemoved
    \/ HardClearFailed
    \/ HardClearSleep
    \/ HardClearExhausted

\* hard_clear is sequential code: each of its steps is taken once it is
\* reached.
SpecClear == InitClear /\ [][NextClear]_vars /\ WF_vars(NextClear)

\* What holds of a call of hard_clear at any moment.
ClearSafe ==
    /\ clear.attempts <= clear.max_retries + 1
    /\ \A k \in DOMAIN clear.sleeps :
           clear.sleeps[k] = clear.retry_delay * (2 ^ (k - 1))
    /\ clear.at = "try" /\ clear.attempt > 0 =>
           /\ Len(clear.sleeps) = clear.attempt
           /\ Len(clear.failures) = clear.attempt
    /\ clear.at = "returned" =>
           /\ clear.result \in { << TRUE >>, << FALSE >> }
           /\ clear.result = << TRUE >> <=> clear.removed
    /\ clear.exists = << FALSE >> =>
           /\ clear.at = "returned"
           /\ clear.result = << FALSE >>
           /\ clear.attempts = Len(clear.failures)

\* C39: hard_clear returns, having called rmtree at most max_retries + 1
\* times; the wait after the failure of attempt k (from 0) is
\* retry_delay * 2^k; it returns True exactly when a call of rmtree
\* returned; and when it finds the directory absent it returns False at
\* once, with no further attempt or wait.
C39_HardClearTerminates ==
    /\ [] ClearSafe
    /\ [][ clear'.exists = << FALSE >> =>
              /\ clear'.at = "returned"
              /\ clear'.attempts = clear.attempts
              /\ clear'.sleeps = clear.sleeps
              /\ now' = now ]_vars
    /\ <> (clear.at = "returned")

\* C39 witness: with the default arguments, rmtree failed twice, the waits
\* were 1 and 2 seconds, and the third attempt removed the directory.
C39_RemovedOnThirdAttempt ==
    /\ clear.at = "returned"
    /\ clear.max_retries = 3
    /\ clear.retry_delay = 1
    /\ clear.attempts = 3
    /\ clear.sleeps = << 1, 2 >>
    /\ now = 3
    /\ clear.result = << TRUE >>

====
